---- MODULE Spec2Model ----
(***************************************************************************)
(* The R1CS compiler of gnark (frontend/cs/r1cs): wire allocation, linear  *)
(* expression reduction, constraint storage, boolean marks, hints, the     *)
(* unconstrained-input check, wire offsetting and the level builder.       *)
(*                                                                         *)
(* Go slices are modelled as they behave: a slice is a pointer into a heap *)
(* of backing arrays plus a length, so that in-place sorting, reduction    *)
(* and offsetting are visible through every alias of the same array.       *)
(***************************************************************************)
EXTENDS Integers, Sequences, FiniteSets, TLC

VARIABLES
    Public,               \* compiled.ConstraintSystem.Public  : names, [1] is "one"
    Secret,               \* compiled.ConstraintSystem.Secret  : names
    NbInternalVariables,  \* compiled.ConstraintSystem.NbInternalVariables
    Schema,               \* compiled.ConstraintSystem.Schema  : "nil" or "set"
    config,               \* frontend.CompileConfig            : [IgnoreUnconstrainedInputs]
    Constraints,          \* compiler.Constraints              : Seq of [L, R, O] slices
    MHints,               \* compiled.ConstraintSystem.MHints  : wire -> pointer into hints
    hints,                \* the *compiled.Hint records MHints points to
    mtBooleans,           \* compiler.mtBooleans               : hash -> Seq of slices
    heap,                 \* backing arrays of every LinearExpression
    vars,                 \* the Variables the caller holds (slices)
    ret,                  \* the last call and what it returned
    res,                  \* what Compile built (compiled.R1CS and the level builder)
    pc,                   \* "build" until Compile succeeded, then "done"
    marked,               \* history: sorted expressions passed to MarkBoolean
    allocated             \* history: wires in the order the allocators returned them

vars_all == <<Public, Secret, NbInternalVariables, Schema, config, Constraints,
              MHints, hints, mtBooleans, heap, vars, ret, res, pc, marked, allocated>>

-----------------------------------------------------------------------------
(* Bounds of the model *)

MaxLen == 3            \* longest linear expression the caller builds
Modulus == 3           \* the field modulus p, scaled down
HashMod == 4           \* width of LinearExpression.HashCode, scaled down
MaxPublic == 2         \* public wires, the reserved wire "one" included
MaxSecret == 1         \* secret wires
MaxInternal == 3       \* internal wires
MaxVars == 3           \* Variables the caller holds at a time
MaxCallerVars == 3     \* the same, where the caller rewrites its Variables
MaxCallerConstraints == 2  \* stored constraints, where the caller rewrites its Variables
MaxConstraints == 2    \* stored constraints
MaxHintOutputs == 2    \* largest nbOutputs passed to NewHint
MaxHints == 1          \* hints registered
MaxMarks == 1          \* calls of MarkBoolean that store an expression
MaxHintInputs == 1     \* inputs passed to NewHint
MaxHintVars == 4       \* Variables the caller holds, where several hints are registered
MaxHintRecords == 3    \* hints registered, where several hints are registered
MaxLevelVars == 3      \* Variables the caller holds, where the levels are exercised
MaxLevelConstraints == 3   \* stored constraints, where the levels are exercised
MaxGateInputs == 3     \* most inputs handed to a gate
MaxInstances == 4      \* info.NbInstances, the instances a hint call solves
MaxAllocPublic == 3    \* public wires, where only allocation is exercised
MaxAllocSecret == 2    \* secret wires, where only allocation is exercised

-----------------------------------------------------------------------------
(* Terms, coefficients, order *)

Visibilities == {"Public", "Secret", "Internal"}

\* compiled.Pack(variableID, coeffID, visibility)
Pack(vID, cID, vis) == [cID |-> cID, vID |-> vID, vis |-> vis]

CoeffIdZero == 0
CoeffIdOne == 1
CoeffIdTwo == 2
CoeffIdMinusOne == 3

\* cs.CoeffTable.Coeffs[id]: ids 0..3 are reserved for 0, 1, 2, -1; the other
\* values are numbered as they would be when interned in ascending order.
Coeffs(id) == IF id <= CoeffIdTwo THEN id ELSE IF id = CoeffIdMinusOne THEN -1 ELSE id - 1

\* cs.CoeffTable.CoeffID(v) for v in 0..Modulus-1 or v = -1
CoeffID(v) == IF v = -1 THEN CoeffIdMinusOne ELSE IF v <= CoeffIdTwo THEN v ELSE v + 1

\* rank of a visibility in the order public || secret || internal
VisRank(vis) == CASE vis = "Public" -> 0 [] vis = "Secret" -> 1 [] vis = "Internal" -> 2

\* LinearExpression.Less on two terms: by visibility, then by wire ID
Less(t, u) == IF t.vis = u.vis THEN t.vID < u.vID ELSE VisRank(t.vis) < VisRank(u.vis)

\* sort.IsSorted(l)
IsSorted(l) == \A i \in 2..Len(l) : ~Less(l[i], l[i-1])

RECURSIVE InsertSorted(_, _)
InsertSorted(s, t) ==
    IF s = <<>> THEN <<t>>
    ELSE IF Less(t, s[Len(s)])
         THEN Append(InsertSorted(SubSeq(s, 1, Len(s) - 1), t), s[Len(s)])
         ELSE Append(s, t)

\* sort.Sort(l): for the short slices of the model Go runs an insertion sort,
\* which moves a term left only past strictly greater terms
RECURSIVE Sort(_)
Sort(l) == IF l = <<>> THEN <<>>
           ELSE InsertSorted(Sort(SubSeq(l, 1, Len(l) - 1)), l[Len(l)])

\* the first n terms of an array sorted in place, the tail left alone
SortPrefix(arr, n) == Sort(SubSeq(arr, 1, n)) \o SubSeq(arr, n + 1, Len(arr))

-----------------------------------------------------------------------------
(* Slices *)

\* a slice: the address of its backing array and its length
Slice(p, n) == [p |-> p, n |-> n]

\* addresses: the k-th array the caller made, and the arrays newR1C made for
\* the L, R and O of the k-th stored constraint
Addr(region, k) == [r |-> region, k |-> k]

Deref(h, s) == SubSeq(h[s.p], 1, s.n)

\* the heap with a new array arr at address a
Alloc(h, a, arr) == [x \in DOMAIN h \cup {a} |-> IF x = a THEN arr ELSE h[x]]

\* LinearExpression.Clone / Variable.Clone of slice s: a fresh backing array at a
CloneInto(h, a, s) == Alloc(h, a, Deref(h, s))

EmptyHeap == [x \in {} |-> <<>>]

-----------------------------------------------------------------------------
(* reduce *)

\* append(l.LinExp[:i], l.LinExp[i+1:]...) inside the same backing array
RemoveAt(arr, n, i) ==
    [k \in 1..Len(arr) |-> IF k > i /\ k < n THEN arr[k + 1] ELSE arr[k]]

\* the loop of reduce forgetting to step back after a merge
RECURSIVE ReduceLoopNoStepBack(_, _, _)
ReduceLoopNoStepBack(arr, n, i) ==
    IF i >= n THEN [arr |-> arr, n |-> n]
    ELSE IF arr[i].vis = arr[i+1].vis /\ arr[i].vID = arr[i+1].vID
         THEN LET c == (Coeffs(arr[i].cID) + Coeffs(arr[i+1].cID)) % Modulus
                  a1 == [arr EXCEPT ![i].cID = CoeffID(c)]
              IN ReduceLoopNoStepBack(RemoveAt(a1, n, i), n - 1, i + 1)
         ELSE ReduceLoopNoStepBack(arr, n, i + 1)

\* the loop of reduce: arr is the backing array, n the current length of
\* l.LinExp, i the loop index (terms i and i+1 here are Go's i-1 and i)
RECURSIVE ReduceLoop(_, _, _)
ReduceLoop(arr, n, i) ==
    IF i >= n THEN [arr |-> arr, n |-> n]
    ELSE IF arr[i].vis = arr[i+1].vis /\ arr[i].vID = arr[i+1].vID
         THEN LET c == (Coeffs(arr[i].cID) + Coeffs(arr[i+1].cID)) % Modulus
                  a1 == [arr EXCEPT ![i].cID = CoeffID(c)]
              IN ReduceLoop(RemoveAt(a1, n, i), n - 1, i)
         ELSE ReduceLoop(arr, n, i + 1)

\* reduce without the sort that brings equal wires next to each other
reduceUnsorted(arr, n) == ReduceLoop(arr, n, 1)

\* reduce on the backing array arr of a slice of length n: the array after
\* the call and the length of the returned slice
reduce(arr, n) ==
    LET sorted == IF IsSorted(SubSeq(arr, 1, n)) THEN arr ELSE SortPrefix(arr, n)
    IN ReduceLoop(sorted, n, 1)

-----------------------------------------------------------------------------
(* Construction and allocation *)

NoHints == [w \in {} |-> 0]
NoBooleans == [k \in {} |-> <<>>]
NoResult == [built |-> FALSE]

\* newCompiler(curveID, config)
newCompiler(cfg) ==
    /\ Public = <<"one">>
    /\ Secret = <<>>
    /\ NbInternalVariables = 0
    /\ Schema = "nil"
    /\ config = cfg
    /\ Constraints = <<>>
    /\ MHints = NoHints
    /\ hints = <<>>
    /\ mtBooleans = NoBooleans
    /\ res = NoResult
    /\ pc = "build"
    /\ marked = {}
    /\ allocated = <<>>

Init ==
    /\ newCompiler([IgnoreUnconstrainedInputs |-> FALSE])
    /\ heap = EmptyHeap
    /\ vars = <<>>
    /\ ret = [op |-> "NewCompiler"]

\* the caller keeps a returned Variable: a fresh backing array holding le
Keep(le) ==
    /\ heap' = Alloc(heap, Addr("v", Len(vars) + 1), le)
    /\ vars' = Append(vars, Slice(Addr("v", Len(vars) + 1), Len(le)))

\* the names the caller gives the leaves of its circuit, in declaration order
LeafNames == <<"a", "b", "c", "d", "e", "f">>

NextLeafName == LeafNames[Len(Public) + Len(Secret)]

\* a usage error: the call panics and the program stops
Panic(op) ==
    /\ pc' = "panic"
    /\ ret' = [op |-> op, panic |-> TRUE]
    /\ UNCHANGED <<Public, Secret, NbInternalVariables, Schema, config, Constraints,
                   MHints, hints, mtBooleans, heap, vars, res, marked, allocated>>

\* the wire index AddSecretVariable would hand out reading the length after the append
SecretIdxAfterAppend == Len(Secret) + 1

\* idx := len(system.Secret), read before the append
SecretIdx == Len(Secret)

\* AddPublicVariable numbering from zero, wire 0 not being reserved
AddPublicVariableFromZero(name) ==
    /\ pc = "build"
    /\ IF Schema # "nil" THEN Panic("AddPublicVariable")
       ELSE LET idx == Len(Public) - 1
                v == <<Pack(idx, CoeffIdOne, "Public")>>
            IN /\ Public' = Append(Public, name)
               /\ Keep(v)
               /\ ret' = [op |-> "AddPublicVariable", out |-> v]
               /\ allocated' = Append(allocated, [vis |-> "Public", vID |-> idx])
               /\ UNCHANGED <<Secret, NbInternalVariables, Schema, config, Constraints,
                              MHints, hints, mtBooleans, res, pc, marked>>

\* AddPublicVariable(name)
AddPublicVariable(name) ==
    /\ pc = "build"
    /\ IF Schema # "nil" THEN Panic("AddPublicVariable")
       ELSE LET idx == Len(Public)
                v == <<Pack(idx, CoeffIdOne, "Public")>>
            IN /\ Public' = Append(Public, name)
               /\ Keep(v)
               /\ ret' = [op |-> "AddPublicVariable", out |-> v]
               /\ allocated' = Append(allocated, [vis |-> "Public", vID |-> idx])
               /\ UNCHANGED <<Secret, NbInternalVariables, Schema, config, Constraints,
                              MHints, hints, mtBooleans, res, pc, marked>>

\* AddSecretVariable without the test of system.Schema
AddSecretVariableAnyTime(name) ==
    /\ pc = "build"
    /\ LET idx == SecretIdx
           v == <<Pack(idx, CoeffIdOne, "Secret")>>
       IN /\ Secret' = Append(Secret, name)
          /\ Keep(v)
          /\ ret' = [op |-> "AddSecretVariable", out |-> v]
          /\ allocated' = Append(allocated, [vis |-> "Secret", vID |-> idx])
          /\ UNCHANGED <<Public, NbInternalVariables, Schema, config, Constraints,
                         MHints, hints, mtBooleans, res, pc, marked>>

\* AddSecretVariable(name)
AddSecretVariable(name) ==
    /\ pc = "build"
    /\ IF Schema # "nil" THEN Panic("AddSecretVariable")
       ELSE LET idx == SecretIdx
                v == <<Pack(idx, CoeffIdOne, "Secret")>>
            IN /\ Secret' = Append(Secret, name)
               /\ Keep(v)
               /\ ret' = [op |-> "AddSecretVariable", out |-> v]
               /\ allocated' = Append(allocated, [vis |-> "Secret", vID |-> idx])
               /\ UNCHANGED <<Public, NbInternalVariables, Schema, config, Constraints,
                              MHints, hints, mtBooleans, res, pc, marked>>

\* the counter after newInternalVariable forgot system.NbInternalVariables++
NbInternalNotAdvanced(nb) == nb

\* the counter after one newInternalVariable
NbInternalAfter(nb) == nb + 1

\* newInternalVariable(), called directly (as the arithmetic API does)
newInternalVariable ==
    /\ pc = "build"
    /\ LET idx == NbInternalVariables
           v == <<Pack(idx, CoeffIdOne, "Internal")>>
       IN /\ NbInternalVariables' = NbInternalAfter(NbInternalVariables)
          /\ Keep(v)
          /\ ret' = [op |-> "newInternalVariable", out |-> v]
          /\ allocated' = Append(allocated, [vis |-> "Internal", vID |-> idx])
          /\ UNCHANGED <<Public, Secret, Schema, config, Constraints,
                         MHints, hints, mtBooleans, res, pc, marked>>

\* setCoeff(v, coeff): the term with its coefficient replaced
setCoeff(t, cID) == Pack(t.vID, cID, t.vis)

CallerCoeffs == {CoeffIdZero, CoeffIdOne, CoeffIdMinusOne}

\* the caller builds a Variable from two it holds (as the arithmetic API does
\* before it reduces): a fresh array with the terms of vars[i], then the
\* terms of vars[j] with coefficient cID
Combine(i, j, cID) ==
    /\ pc = "build"
    /\ LET a == Deref(heap, vars[i])
           b == Deref(heap, vars[j])
           le == a \o [k \in 1..Len(b) |-> setCoeff(b[k], cID)]
       IN /\ Keep(le)
          /\ ret' = [op |-> "Combine", out |-> le]
    /\ UNCHANGED <<Public, Secret, NbInternalVariables, Schema, config, Constraints,
                   MHints, hints, mtBooleans, res, pc, marked, allocated>>

\* system.reduce(vars[i]); the caller keeps the returned Variable in place of
\* the one it passed (both share the backing array)
Reduce(i) ==
    /\ pc = "build"
    /\ LET s == vars[i]
           r == reduce(heap[s.p], s.n)
       IN /\ heap' = [heap EXCEPT ![s.p] = r.arr]
          /\ vars' = [vars EXCEPT ![i] = Slice(s.p, r.n)]
          /\ ret' = [op |-> "reduce", in |-> Deref(heap, s), out |-> SubSeq(r.arr, 1, r.n)]
    /\ UNCHANGED <<Public, Secret, NbInternalVariables, Schema, config, Constraints,
                   MHints, hints, mtBooleans, res, pc, marked, allocated>>

-----------------------------------------------------------------------------
(* Constraints *)

\* newR1C storing the caller's own slices instead of clones
newR1CNoClone(h, k, l, r, o) ==
    LET sw == l.n > r.n
    IN [heap |-> h,
        r1c |-> [L |-> IF sw THEN r ELSE l, R |-> IF sw THEN l ELSE r, O |-> o]]

\* newR1C without the swap of l and r
newR1CNoSwap(h, k, l, r, o) ==
    LET h1 == CloneInto(h, Addr("L", k), l)
        h2 == CloneInto(h1, Addr("R", k), r)
        h3 == CloneInto(h2, Addr("O", k), o)
    IN [heap |-> h3,
        r1c |-> [L |-> Slice(Addr("L", k), l.n), R |-> Slice(Addr("R", k), r.n),
                 O |-> Slice(Addr("O", k), o.n)]]

\* newR1C(l, r, o) on heap h for the k-th constraint: l and r swapped when l
\* is the longer, then three clones; gives the heap with the clones and the R1C
newR1C(h, k, l, r, o) ==
    LET sw == l.n > r.n
        l1 == IF sw THEN r ELSE l
        r1 == IF sw THEN l ELSE r
        h1 == CloneInto(h, Addr("L", k), l1)
        h2 == CloneInto(h1, Addr("R", k), r1)
        h3 == CloneInto(h2, Addr("O", k), o)
    IN [heap |-> h3,
        r1c |-> [L |-> Slice(Addr("L", k), l1.n), R |-> Slice(Addr("R", k), r1.n),
                 O |-> Slice(Addr("O", k), o.n)]]

\* system.addConstraint(newR1C(vars[i], vars[j], vars[k]))
addConstraint(i, j, k) ==
    /\ pc = "build"
    /\ LET b == newR1C(heap, Len(Constraints) + 1, vars[i], vars[j], vars[k])
       IN /\ heap' = b.heap
          /\ Constraints' = Append(Constraints, b.r1c)
    /\ ret' = [op |-> "addConstraint", l |-> Deref(heap, vars[i]),
               r |-> Deref(heap, vars[j]), o |-> Deref(heap, vars[k])]
    /\ UNCHANGED <<Public, Secret, NbInternalVariables, Schema, config, MHints, hints,
                   mtBooleans, vars, res, pc, marked, allocated>>

-----------------------------------------------------------------------------
(* Constants and boolean marks *)

\* ConstantValue testing the visibility of the single term but not its wire
ConstantValueAnyWire(le) ==
    IF Len(le) # 1 THEN [ok |-> FALSE]
    ELSE IF ~(le[1].vis = "Public") THEN [ok |-> FALSE]
    ELSE [ok |-> TRUE, val |-> Coeffs(le[1].cID)]

\* ConstantValue(v) for a compiled.Variable with terms le
ConstantValue(le) ==
    IF Len(le) # 1 THEN [ok |-> FALSE]
    ELSE IF ~(le[1].vID = 0 /\ le[1].vis = "Public") THEN [ok |-> FALSE]
    ELSE [ok |-> TRUE, val |-> Coeffs(le[1].cID)]

\* the test of a constant without b.IsUint64()
IsAtMostOne(b) == b <= 1

\* b.IsUint64() && b.Uint64() <= 1
IsZeroOrOne(b) == b >= 0 /\ b <= 1

\* the visibility bits of a packed term
VisBits(vis) == CASE vis = "Public" -> 1 [] vis = "Secret" -> 3 [] vis = "Internal" -> 7

\* a term as the integer it is packed into (fields narrowed)
TermCode(t) == t.vID + 4 * t.cID + 32 * VisBits(t.vis)

\* LinearExpression.HashCode: h = 17, then h = h*23 + term, in the hash width
RECURSIVE HashFrom(_, _)
HashFrom(h, le) ==
    IF le = <<>> THEN h
    ELSE HashFrom((h * 23 + TermCode(le[1])) % HashMod, SubSeq(le, 2, Len(le)))

HashCode(le) == HashFrom(17 % HashMod, le)

\* the bucket of key in the boolean table (nil when absent)
Bucket(mt, key) == IF key \in DOMAIN mt THEN mt[key] ELSE <<>>

NbMarks == LET RECURSIVE Sum(_)
               Sum(ks) == IF ks = {} THEN 0
                          ELSE LET k == CHOOSE x \in ks : TRUE
                               IN Len(mtBooleans[k]) + Sum(ks \ {k})
           IN Sum(DOMAIN mtBooleans)

\* MarkBoolean storing a copy of the expression instead of the caller's slice
StoreMarkCopy(h, s) ==
    [heap |-> CloneInto(h, Addr("b", NbMarks + 1), s), s |-> Slice(Addr("b", NbMarks + 1), s.n)]

\* list = append(list, l): the caller's slice itself is stored
StoreMark(h, s) == [heap |-> h, s |-> s]

\* MarkBoolean(vars[i])
MarkBoolean(i) ==
    /\ pc = "build"
    /\ LET s == vars[i]
           c == ConstantValue(Deref(heap, s))
       IN IF c.ok
          THEN IF ~IsZeroOrOne(c.val) THEN Panic("MarkBoolean")
               ELSE /\ ret' = [op |-> "MarkBoolean", constant |-> TRUE]
                    /\ UNCHANGED <<Public, Secret, NbInternalVariables, Schema, config,
                                   Constraints, MHints, hints, mtBooleans, heap, vars,
                                   res, pc, marked, allocated>>
          ELSE /\ LET arr == IF IsSorted(Deref(heap, s)) THEN heap[s.p]
                             ELSE SortPrefix(heap[s.p], s.n)
                      l == SubSeq(arr, 1, s.n)
                      key == HashCode(l)
                      st == StoreMark([heap EXCEPT ![s.p] = arr], s)
                  IN /\ heap' = st.heap
                     /\ mtBooleans' = [k \in DOMAIN mtBooleans \cup {key} |->
                                          IF k = key THEN Append(Bucket(mtBooleans, key), st.s)
                                          ELSE mtBooleans[k]]
                     /\ marked' = marked \cup {l}
                     /\ ret' = [op |-> "MarkBoolean", constant |-> FALSE, l |-> l]
               /\ UNCHANGED <<Public, Secret, NbInternalVariables, Schema, config,
                              Constraints, MHints, hints, vars, res, pc, allocated>>

\* the lookup of IsBoolean for a sorted, non-constant expression l
Lookup(mt, h, l) ==
    LET key == HashCode(l)
    IN /\ key \in DOMAIN mt
       /\ \E n \in 1..Len(mt[key]) : Deref(h, mt[key][n]) = l

\* IsBoolean(vars[i])
IsBoolean(i) ==
    /\ pc = "build"
    /\ LET s == vars[i]
           c == ConstantValue(Deref(heap, s))
       IN IF c.ok
          THEN /\ ret' = [op |-> "IsBoolean", constant |-> TRUE, val |-> c.val,
                          out |-> IsZeroOrOne(c.val)]
               /\ heap' = heap
          ELSE LET arr == IF IsSorted(Deref(heap, s)) THEN heap[s.p]
                          ELSE SortPrefix(heap[s.p], s.n)
                   l == SubSeq(arr, 1, s.n)
                   h1 == [heap EXCEPT ![s.p] = arr]
               IN /\ heap' = h1
                  /\ ret' = [op |-> "IsBoolean", constant |-> FALSE, l |-> l,
                             out |-> Lookup(mtBooleans, h1, l)]
    /\ UNCHANGED <<Public, Secret, NbInternalVariables, Schema, config, Constraints,
                   MHints, hints, mtBooleans, vars, res, pc, marked, allocated>>

-----------------------------------------------------------------------------
(* Hints and the schema *)

HintFunctions == {"f"}

\* the loop of NewHint over varIDs: n calls of newInternalVariable starting
\* with the counter at nb; the wire IDs handed out and the counter after
RECURSIVE AllocInternals(_, _)
AllocInternals(nb, n) ==
    IF n = 0 THEN [ids |-> <<>>, nb |-> nb]
    ELSE LET rest == AllocInternals(NbInternalAfter(nb), n - 1)
         IN [ids |-> <<nb>> \o rest.ids, nb |-> rest.nb]

\* what the caller may pass as one hint input: a Variable it holds or a constant
HintInputChoices ==
    {[kind |-> "Variable", i |-> i] : i \in 1..Len(vars)} \cup {[kind |-> "constant", val |-> 2]}

\* hintInputs[i]: the cloned LinearExpression of a Variable, or the constant
HintInput(in) ==
    IF in.kind = "Variable"
    THEN [kind |-> "LinearExpression", le |-> Deref(heap, vars[in.i])]
    ELSE [kind |-> "constant", val |-> in.val]

\* MHints after a hint registered only under its first output wire
RegisterFirstOnly(mh, ids, ptr) ==
    [w \in DOMAIN mh \cup {ids[1]} |-> IF w = ids[1] THEN ptr ELSE mh[w]]

\* for _, vID := range varIDs { system.MHints[vID] = ch }
Register(mh, ids, ptr) ==
    LET ws == {ids[k] : k \in 1..Len(ids)}
    IN [w \in DOMAIN mh \cup ws |-> IF w \in ws THEN ptr ELSE mh[w]]

\* NewHint rejecting only a negative nbOutputs
NewHintZeroAccepted(f, nbOutputs, inputs) ==
    /\ pc = "build"
    /\ IF nbOutputs < 0
       THEN /\ ret' = [op |-> "NewHint", nbOutputs |-> nbOutputs, err |-> TRUE, out |-> <<>>]
            /\ UNCHANGED <<Public, Secret, NbInternalVariables, Schema, config,
                           Constraints, MHints, hints, mtBooleans, heap, vars, res, pc,
                           marked, allocated>>
       ELSE /\ LET a == AllocInternals(NbInternalVariables, nbOutputs)
                   out == [k \in 1..nbOutputs |-> <<Pack(a.ids[k], CoeffIdOne, "Internal")>>]
                   ch == [ID |-> f,
                          Inputs |-> [k \in 1..Len(inputs) |-> HintInput(inputs[k])],
                          Wires |-> a.ids]
               IN /\ NbInternalVariables' = a.nb
                  /\ hints' = Append(hints, ch)
                  /\ MHints' = Register(MHints, a.ids, Len(hints) + 1)
                  /\ heap' = [x \in DOMAIN heap \cup
                                    {Addr("v", Len(vars) + k) : k \in 1..nbOutputs} |->
                                 IF x \in DOMAIN heap THEN heap[x] ELSE out[x.k - Len(vars)]]
                  /\ vars' = vars \o
                        [k \in 1..nbOutputs |-> Slice(Addr("v", Len(vars) + k), 1)]
                  /\ ret' = [op |-> "NewHint", nbOutputs |-> nbOutputs, err |-> FALSE, out |-> out]
                  /\ allocated' = allocated \o
                        [k \in 1..nbOutputs |-> [vis |-> "Internal", vID |-> a.ids[k]]]
            /\ UNCHANGED <<Public, Secret, Schema, config, Constraints, mtBooleans,
                           res, pc, marked>>

\* NewHint(f, nbOutputs, inputs...)
NewHint(f, nbOutputs, inputs) ==
    /\ pc = "build"
    /\ IF nbOutputs <= 0
       THEN /\ ret' = [op |-> "NewHint", nbOutputs |-> nbOutputs, err |-> TRUE, out |-> <<>>]
            /\ UNCHANGED <<Public, Secret, NbInternalVariables, Schema, config,
                           Constraints, MHints, hints, mtBooleans, heap, vars, res, pc,
                           marked, allocated>>
       ELSE /\ LET a == AllocInternals(NbInternalVariables, nbOutputs)
                   out == [k \in 1..nbOutputs |-> <<Pack(a.ids[k], CoeffIdOne, "Internal")>>]
                   ch == [ID |-> f,
                          Inputs |-> [k \in 1..Len(inputs) |-> HintInput(inputs[k])],
                          Wires |-> a.ids]
               IN /\ NbInternalVariables' = a.nb
                  /\ hints' = Append(hints, ch)
                  /\ MHints' = Register(MHints, a.ids, Len(hints) + 1)
                  /\ heap' = [x \in DOMAIN heap \cup
                                    {Addr("v", Len(vars) + k) : k \in 1..nbOutputs} |->
                                 IF x \in DOMAIN heap THEN heap[x] ELSE out[x.k - Len(vars)]]
                  /\ vars' = vars \o
                        [k \in 1..nbOutputs |-> Slice(Addr("v", Len(vars) + k), 1)]
                  /\ ret' = [op |-> "NewHint", nbOutputs |-> nbOutputs, err |-> FALSE, out |-> out]
                  /\ allocated' = allocated \o
                        [k \in 1..nbOutputs |-> [vis |-> "Internal", vID |-> a.ids[k]]]
            /\ UNCHANGED <<Public, Secret, Schema, config, Constraints, mtBooleans,
                           res, pc, marked>>

\* SetSchema(s)
SetSchema ==
    /\ pc = "build"
    /\ IF Schema # "nil" THEN Panic("SetSchema")
       ELSE /\ Schema' = "set"
            /\ ret' = [op |-> "SetSchema"]
            /\ UNCHANGED <<Public, Secret, NbInternalVariables, config, Constraints,
                           MHints, hints, mtBooleans, heap, vars, res, pc, marked,
                           allocated>>

-----------------------------------------------------------------------------
(* checkVariables *)

\* the body of the loop of processLinearExpression for one term; st holds the
\* counters cptSecret, cptPublic, cptHints and the wires marked constrained
ProcessTerm(st, t) ==
    IF t.cID = CoeffIdZero THEN st
    ELSE CASE t.vis = "Public" ->
                IF t.vID # 0 /\ t.vID \notin st.publicConstrained
                THEN [st EXCEPT !.publicConstrained = @ \cup {t.vID}, !.cptPublic = @ - 1]
                ELSE st
           [] t.vis = "Secret" ->
                IF t.vID \notin st.secretConstrained
                THEN [st EXCEPT !.secretConstrained = @ \cup {t.vID}, !.cptSecret = @ - 1]
                ELSE st
           [] t.vis = "Internal" ->
                IF t.vID \notin st.mHintsConstrained /\ t.vID \in DOMAIN MHints
                THEN [st EXCEPT !.mHintsConstrained = @ \cup {t.vID}, !.cptHints = @ - 1]
                ELSE st

\* processLinearExpression counting zero-coefficient terms as references
RECURSIVE processLinearExpressionCountingZero(_, _)
processLinearExpressionCountingZero(st, le) ==
    IF le = <<>> THEN st
    ELSE processLinearExpressionCountingZero(
            ProcessTerm(st, [le[1] EXCEPT !.cID = CoeffIdOne]), SubSeq(le, 2, Len(le)))

\* processLinearExpression(l)
RECURSIVE processLinearExpression(_, _)
processLinearExpression(st, le) ==
    IF le = <<>> THEN st
    ELSE processLinearExpression(ProcessTerm(st, le[1]), SubSeq(le, 2, Len(le)))

\* the names of the first cpt entries of names not marked constrained
\* (the loops building the error string; i is a Go index)
RECURSIVE Unconstrained(_, _, _, _)
Unconstrained(names, constrained, cpt, i) ==
    IF ~(i < Len(names) /\ cpt # 0) THEN <<>>
    ELSE IF i \notin constrained
         THEN <<names[i + 1]>> \o Unconstrained(names, constrained, cpt - 1, i + 1)
         ELSE Unconstrained(names, constrained, cpt, i + 1)

\* the error checkVariables builds from the counters
CheckError(st) ==
    [nil |-> FALSE,
     cptSecret |-> st.cptSecret,
     secret |-> Unconstrained(Secret, st.secretConstrained, st.cptSecret, 0),
     cptPublic |-> st.cptPublic,
     public |-> Unconstrained(Public, st.publicConstrained, st.cptPublic, 0),
     cptHints |-> st.cptHints]

\* the loop over system.Constraints from constraint i (1-based) on
RECURSIVE CheckLoop(_, _)
CheckLoop(st, i) ==
    IF i > Len(Constraints) THEN CheckError(st)
    ELSE LET c == Constraints[i]
             s1 == processLinearExpression(st, Deref(heap, c.L))
             s2 == processLinearExpression(s1, Deref(heap, c.R))
             s3 == processLinearExpression(s2, Deref(heap, c.O))
         IN IF s3.cptHints = 0 /\ s3.cptSecret = 0 /\ s3.cptPublic = 0
            THEN [nil |-> TRUE]
            ELSE CheckLoop(s3, i + 1)

\* checkVariables()
checkVariables ==
    CheckLoop([cptSecret |-> Len(Secret),
               cptPublic |-> Len(Public) - 1,
               cptHints |-> Cardinality(DOMAIN MHints),
               secretConstrained |-> {},
               publicConstrained |-> {0},
               mHintsConstrained |-> {}], 1)

-----------------------------------------------------------------------------
(* Compile: wire offsets *)

\* shiftVID adding the number of secret wires to a secret wire ID
shiftVIDSecretBySecret(oldID, visibility, nbPublic, nbSecret) ==
    CASE visibility = "Internal" -> oldID + nbPublic + nbSecret
      [] visibility = "Public" -> oldID
      [] visibility = "Secret" -> oldID + nbSecret

\* shiftVID(oldID, visibility) with res.NbPublicVariables, res.NbSecretVariables
shiftVID(oldID, visibility, nbPublic, nbSecret) ==
    CASE visibility = "Internal" -> oldID + nbPublic + nbSecret
      [] visibility = "Public" -> oldID
      [] visibility = "Secret" -> oldID + nbPublic

\* offsetIDs(l) on a LinearExpression held by value
offsetIDs(le, nbPublic, nbSecret) ==
    [j \in 1..Len(le) |->
        [le[j] EXCEPT !.vID = shiftVID(le[j].vID, le[j].vis, nbPublic, nbSecret)]]

\* offsetIDs(l) in place: the heap after the terms of slice s were rewritten
OffsetSlice(h, s, nbPublic, nbSecret) ==
    [h EXCEPT ![s.p] = offsetIDs(SubSeq(@, 1, s.n), nbPublic, nbSecret)
                         \o SubSeq(@, s.n + 1, Len(@))]

\* the loop over res.Constraints from constraint i (1-based) on
RECURSIVE OffsetConstraints(_, _, _, _)
OffsetConstraints(h, i, nbPublic, nbSecret) ==
    IF i > Len(Constraints) THEN h
    ELSE LET c == Constraints[i]
             h1 == OffsetSlice(h, c.L, nbPublic, nbSecret)
             h2 == OffsetSlice(h1, c.R, nbPublic, nbSecret)
             h3 == OffsetSlice(h2, c.O, nbPublic, nbSecret)
         IN OffsetConstraints(h3, i + 1, nbPublic, nbSecret)

-----------------------------------------------------------------------------
(* Compile: hints *)

\* the orders in which a range over the map cs.MHints may visit its keys
IterationOrders(m) ==
    {ord \in [1..Cardinality(DOMAIN m) -> DOMAIN m] :
        \A a, b \in DOMAIN ord : a # b => ord[a] # ord[b]}

\* the input of a hint copied without the offset of its wire IDs
ShiftInputKept(in, nbPublic, nbSecret) == in

\* inputs[j] of the finalized hint: expressions copied and offset, constants kept
ShiftInput(in, nbPublic, nbSecret) ==
    IF in.kind = "LinearExpression"
    THEN [kind |-> "LinearExpression", le |-> offsetIDs(in.le, nbPublic, nbSecret)]
    ELSE in

\* HINTLOOP giving each finalized hint its position in the iteration as identity
RECURSIVE HintLoopNumbered(_, _, _, _, _, _)
HintLoopNumbered(ord, k, sm, rh, nbPublic, nbSecret) ==
    IF k > Len(ord) THEN [shiftedMap |-> sm, hints |-> rh]
    ELSE LET hint == hints[MHints[ord[k]]]
             ws == [i \in 1..Len(hint.Wires) |->
                        shiftVID(hint.Wires[i], "Internal", nbPublic, nbSecret)]
         IN IF ws[1] \in DOMAIN sm
            THEN HintLoopNumbered(ord, k + 1, sm, rh, nbPublic, nbSecret)
            ELSE LET ch == [ID |-> Len(rh) + 1,
                            Inputs |-> [j \in 1..Len(hint.Inputs) |->
                                           ShiftInput(hint.Inputs[j], nbPublic, nbSecret)],
                            Wires |-> ws]
                 IN HintLoopNumbered(ord, k + 1, Register(sm, ws, Len(rh) + 1),
                                     Append(rh, ch), nbPublic, nbSecret)

\* HINTLOOP from position k of the iteration order ord on; sm is shiftedMap
\* (wire -> pointer into rh), rh the finalized *compiled.Hint records
RECURSIVE HintLoop(_, _, _, _, _, _)
HintLoop(ord, k, sm, rh, nbPublic, nbSecret) ==
    IF k > Len(ord) THEN [shiftedMap |-> sm, hints |-> rh]
    ELSE LET hint == hints[MHints[ord[k]]]
             ws == [i \in 1..Len(hint.Wires) |->
                        shiftVID(hint.Wires[i], "Internal", nbPublic, nbSecret)]
         IN IF ws[1] \in DOMAIN sm
            THEN HintLoop(ord, k + 1, sm, rh, nbPublic, nbSecret)
            ELSE LET ch == [ID |-> hint.ID,
                            Inputs |-> [j \in 1..Len(hint.Inputs) |->
                                           ShiftInput(hint.Inputs[j], nbPublic, nbSecret)],
                            Wires |-> ws]
                 IN HintLoop(ord, k + 1, Register(sm, ws, Len(rh) + 1), Append(rh, ch),
                             nbPublic, nbSecret)

-----------------------------------------------------------------------------
(* buildLevels *)

\* the dependency branch of processLE raising the level only to the level of
\* the resolving constraint
BumpToSameLevel(b, n) ==
    IF b.nodeLevels[n] >= b.nodeLevel THEN [b EXCEPT !.nodeLevel = b.nodeLevels[n]] ELSE b

\* the dependency branch of processLE raising the level two above the level
\* of the resolving constraint
BumpByTwo(b, n) ==
    IF b.nodeLevels[n] >= b.nodeLevel THEN [b EXCEPT !.nodeLevel = b.nodeLevels[n] + 2] ELSE b

\* if b.nodeLevels[n] >= b.nodeLevel { b.nodeLevel = b.nodeLevels[n] + 1 }
Bump(b, n) ==
    IF b.nodeLevels[n] >= b.nodeLevel THEN [b EXCEPT !.nodeLevel = b.nodeLevels[n] + 1] ELSE b

\* b.mWireToNode[w] = cID for every w of ws
Resolve(b, ws, cID) ==
    [b EXCEPT !.mWireToNode =
        [w \in DOMAIN @ \cup ws |-> IF w \in ws THEN cID ELSE @[w]]]

\* the loop over h.Inputs of a hint left out: the inputs are not visited
ProcessInputsSkipped(b, ccs, ins, cID) == b

\* processLE(l, cID) of the level builder b over ccs = [MHints, hints, nbInputs];
\* ProcessInputs is the loop over h.Inputs of a hint
RECURSIVE processLE(_, _, _, _)
RECURSIVE ProcessInputs(_, _, _, _)
processLE(b, ccs, l, cID) ==
    IF l = <<>> THEN b
    ELSE LET wID == l[1].vID
             rest == SubSeq(l, 2, Len(l))
         IN IF wID < ccs.nbInputs THEN processLE(b, ccs, rest, cID)
            ELSE IF wID \in DOMAIN b.mWireToNode
            THEN LET n == b.mWireToNode[wID]
                 IN processLE(IF n # cID THEN Bump(b, n) ELSE b, ccs, rest, cID)
            ELSE IF wID \in DOMAIN ccs.MHints
            THEN LET h == ccs.hints[ccs.MHints[wID]]
                     b1 == ProcessInputs(b, ccs, h.Inputs, cID)
                     ws == {h.Wires[k] : k \in 1..Len(h.Wires)}
                 IN processLE(Resolve(b1, ws, cID), ccs, rest, cID)
            ELSE processLE(Resolve(b, {wID}, cID), ccs, rest, cID)
ProcessInputs(b, ccs, ins, cID) ==
    IF ins = <<>> THEN b
    ELSE LET b1 == IF ins[1].kind = "LinearExpression"
                   THEN processLE(b, ccs, ins[1].le, cID)
                   ELSE b
         IN ProcessInputs(b1, ccs, SubSeq(ins, 2, Len(ins)), cID)

\* the loop of buildLevels over ccs.Constraints from cID (a Go index) on;
\* h is the heap holding the offset constraints
RECURSIVE LevelLoop(_, _, _, _)
LevelLoop(b, ccs, h, cID) ==
    IF cID >= Len(Constraints) THEN b
    ELSE LET c == Constraints[cID + 1]
             b0 == [b EXCEPT !.nodeLevel = 0]
             b1 == processLE(b0, ccs, Deref(h, c.L), cID)
             b2 == processLE(b1, ccs, Deref(h, c.R), cID)
             b3 == processLE(b2, ccs, Deref(h, c.O), cID)
             lv == b3.nodeLevel
             b4 == [b3 EXCEPT !.nodeLevels[cID] = lv,
                              !.mLevels = [x \in DOMAIN @ \cup {lv} |->
                                             IF x \in DOMAIN @ THEN
                                                 IF x = lv THEN @[x] + 1 ELSE @[x]
                                             ELSE 1]]
         IN LevelLoop(b4, ccs, h, cID + 1)

\* the constraints whose level is lv, each put in front of those before it
RECURSIVE NodesAtPrepended(_, _, _, _)
NodesAtPrepended(nodeLevels, n, lv, i) ==
    IF i >= n THEN <<>>
    ELSE NodesAtPrepended(nodeLevels, n, lv, i + 1) \o
             (IF nodeLevels[i] = lv THEN <<i>> ELSE <<>>)

\* the constraints (Go indices, ascending) whose level is lv
RECURSIVE NodesAt(_, _, _, _)
NodesAt(nodeLevels, n, lv, i) ==
    IF i >= n THEN <<>>
    ELSE (IF nodeLevels[i] = lv THEN <<i>> ELSE <<>>) \o NodesAt(nodeLevels, n, lv, i + 1)

\* buildLevels(ccs): the level builder when the loop ends and the levels; the
\* append into levels[l] panics when l is not below len(b.mLevels)
buildLevels(ccs, h) ==
    LET n == Len(Constraints)
        b == LevelLoop([mWireToNode |-> [w \in {} |-> 0],
                        nodeLevels |-> [i \in 0..(n - 1) |-> 0],
                        mLevels |-> [x \in {} |-> 0],
                        nodeLevel |-> 0], ccs, h, 0)
        nbLevels == Cardinality(DOMAIN b.mLevels)
    IN [b |-> b,
        panic |-> \E i \in 0..(n - 1) : b.nodeLevels[i] >= nbLevels,
        levels |-> [l \in 1..nbLevels |-> NodesAt(b.nodeLevels, n, l - 1, 0)]]

-----------------------------------------------------------------------------
(* Compile *)

\* Compile offsetting the stored constraints before it checks the variables
CompileOffsetFirst(ord) ==
    /\ pc = "build"
    /\ LET err == IF config.IgnoreUnconstrainedInputs THEN [nil |-> TRUE] ELSE checkVariables
           nbPublic == Len(Public)
           nbSecret == Len(Secret)
           h1 == OffsetConstraints(heap, 1, nbPublic, nbSecret)
           hl == HintLoop(ord, 1, NoHints, <<>>, nbPublic, nbSecret)
           ccs == [MHints |-> hl.shiftedMap, hints |-> hl.hints,
                   nbInputs |-> nbPublic + nbSecret]
           lv == buildLevels(ccs, h1)
       IN /\ heap' = h1
          /\ ret' = [op |-> "Compile", err |-> err]
          /\ IF ~err.nil
             THEN pc' = "failed" /\ res' = res
             ELSE /\ res' = [built |-> TRUE,
                             NbPublicVariables |-> nbPublic,
                             NbSecretVariables |-> nbSecret,
                             MHints |-> hl.shiftedMap,
                             hints |-> hl.hints,
                             Levels |-> lv.levels,
                             panic |-> lv.panic,
                             mWireToNode |-> lv.b.mWireToNode,
                             nodeLevels |-> lv.b.nodeLevels]
                  /\ pc' = "done"
    /\ UNCHANGED <<Public, Secret, NbInternalVariables, Schema, config, Constraints,
                   MHints, hints, mtBooleans, vars, marked, allocated>>

\* Compile checking the variables whatever the configuration says
CompileAlwaysChecking(ord) ==
    /\ pc = "build"
    /\ LET err == checkVariables
       IN IF ~err.nil
          THEN /\ ret' = [op |-> "Compile", err |-> err]
               /\ pc' = "failed"
               /\ UNCHANGED <<heap, res>>
          ELSE LET nbPublic == Len(Public)
                   nbSecret == Len(Secret)
                   h1 == OffsetConstraints(heap, 1, nbPublic, nbSecret)
                   hl == HintLoop(ord, 1, NoHints, <<>>, nbPublic, nbSecret)
                   ccs == [MHints |-> hl.shiftedMap, hints |-> hl.hints,
                           nbInputs |-> nbPublic + nbSecret]
                   lv == buildLevels(ccs, h1)
               IN /\ heap' = h1
                  /\ res' = [built |-> TRUE,
                             NbPublicVariables |-> nbPublic,
                             NbSecretVariables |-> nbSecret,
                             MHints |-> hl.shiftedMap,
                             hints |-> hl.hints,
                             Levels |-> lv.levels,
                             panic |-> lv.panic,
                             mWireToNode |-> lv.b.mWireToNode,
                             nodeLevels |-> lv.b.nodeLevels]
                  /\ pc' = "done"
                  /\ ret' = [op |-> "Compile", err |-> err]
    /\ UNCHANGED <<Public, Secret, NbInternalVariables, Schema, config, Constraints,
                   MHints, hints, mtBooleans, vars, marked, allocated>>

\* Compile(), the range over cs.MHints visiting its keys in the order ord
Compile(ord) ==
    /\ pc = "build"
    /\ LET err == IF config.IgnoreUnconstrainedInputs THEN [nil |-> TRUE] ELSE checkVariables
       IN IF ~err.nil
          THEN /\ ret' = [op |-> "Compile", err |-> err]
               /\ pc' = "failed"
               /\ UNCHANGED <<heap, res>>
          ELSE LET nbPublic == Len(Public)
                   nbSecret == Len(Secret)
                   h1 == OffsetConstraints(heap, 1, nbPublic, nbSecret)
                   hl == HintLoop(ord, 1, NoHints, <<>>, nbPublic, nbSecret)
                   ccs == [MHints |-> hl.shiftedMap, hints |-> hl.hints,
                           nbInputs |-> nbPublic + nbSecret]
                   lv == buildLevels(ccs, h1)
               IN /\ heap' = h1
                  /\ res' = [built |-> TRUE,
                             NbPublicVariables |-> nbPublic,
                             NbSecretVariables |-> nbSecret,
                             MHints |-> hl.shiftedMap,
                             hints |-> hl.hints,
                             Levels |-> lv.levels,
                             panic |-> lv.panic,
                             mWireToNode |-> lv.b.mWireToNode,
                             nodeLevels |-> lv.b.nodeLevels]
                  /\ pc' = "done"
                  /\ ret' = [op |-> "Compile", err |-> err]
    /\ UNCHANGED <<Public, Secret, NbInternalVariables, Schema, config, Constraints,
                   MHints, hints, mtBooleans, vars, marked, allocated>>

-----------------------------------------------------------------------------
(* The builder driven by its caller *)

HintInputLists ==
    {<<>>} \cup UNION {[1..n -> HintInputChoices] : n \in 1..MaxHintInputs}

\* The caller follows the two windows of a compilation: it declares its
\* inputs, fixes the schema, then defines the circuit and compiles.
Next ==
    \/ /\ Schema = "nil"
       /\ \/ Len(Public) < MaxPublic /\ Len(vars) < MaxVars
             /\ AddPublicVariable(NextLeafName)
          \/ Len(Secret) < MaxSecret /\ Len(vars) < MaxVars
             /\ AddSecretVariable(NextLeafName)
          \/ SetSchema
    \/ /\ Schema = "set"
       /\ \/ NbInternalVariables < MaxInternal /\ Len(vars) < MaxVars
             /\ newInternalVariable
          \/ \E i, j \in 1..Len(vars), cID \in {CoeffIdZero} :
                /\ Len(vars) < MaxVars
                /\ vars[i].n + vars[j].n <= MaxLen
                /\ Combine(i, j, cID)
          \/ \E i, j, k \in 1..Len(vars) :
                Len(Constraints) < MaxConstraints /\ addConstraint(i, j, k)
          \/ \E f \in HintFunctions, n \in -1..MaxHintOutputs, inputs \in HintInputLists :
                /\ NbInternalVariables + n <= MaxInternal
                /\ Len(vars) + n <= MaxVars
                /\ Len(hints) < MaxHints
                /\ NewHint(f, n, inputs)
          \/ \E ord \in IterationOrders(MHints) : Compile(ord)

Spec == Init /\ [][Next]_vars_all

-----------------------------------------------------------------------------
(* The caller rewriting the Variables it holds *)

\* the builder after AddSecretVariable("a"), SetSchema(), newInternalVariable()
\* and addConstraint(newR1C(s, s, i)); the caller goes on with the secret
\* Variable s alone
InitCaller ==
    /\ Public = <<"one">>
    /\ Secret = <<"a">>
    /\ NbInternalVariables = 1
    /\ Schema = "set"
    /\ config = [IgnoreUnconstrainedInputs |-> FALSE]
    /\ Constraints = <<[L |-> Slice(Addr("L", 1), 1), R |-> Slice(Addr("R", 1), 1),
                        O |-> Slice(Addr("O", 1), 1)]>>
    /\ MHints = NoHints
    /\ hints = <<>>
    /\ mtBooleans = NoBooleans
    /\ res = NoResult
    /\ pc = "build"
    /\ marked = {}
    /\ allocated = <<[vis |-> "Secret", vID |-> 0], [vis |-> "Internal", vID |-> 0]>>
    /\ LET s == <<Pack(0, CoeffIdOne, "Secret")>>
           i == <<Pack(0, CoeffIdOne, "Internal")>>
       IN /\ heap = [x \in {Addr("v", 1), Addr("L", 1), Addr("R", 1), Addr("O", 1)} |->
                        IF x = Addr("O", 1) THEN i ELSE s]
          /\ ret = [op |-> "addConstraint", l |-> s, r |-> s, o |-> i]
    /\ vars = <<Slice(Addr("v", 1), 1)>>

NextCaller ==
    \/ \E i, j \in 1..Len(vars), cID \in {CoeffIdOne, CoeffIdMinusOne} :
          /\ Len(vars) < MaxCallerVars
          /\ vars[i].n + vars[j].n <= MaxLen
          /\ Combine(i, j, cID)
    \/ \E i \in 1..Len(vars) : Reduce(i)
    \/ \E i \in 1..Len(vars) : NbMarks < MaxMarks /\ MarkBoolean(i)
    \/ \E i \in 1..Len(vars) : IsBoolean(i)
    \/ \E i, j, k \in 1..Len(vars) :
          Len(Constraints) < MaxCallerConstraints /\ addConstraint(i, j, k)
    \/ \E ord \in IterationOrders(MHints) : Compile(ord)

SpecCaller == InitCaller /\ [][NextCaller]_vars_all

-----------------------------------------------------------------------------
(* reduce alone, on every expression within the bounds *)

ReduceWires == {0, 1}

ReduceTerms ==
    {Pack(w, c, v) : w \in ReduceWires, c \in CallerCoeffs, v \in Visibilities}

\* a fresh builder whose caller holds one Variable with any terms
InitReduce ==
    /\ newCompiler([IgnoreUnconstrainedInputs |-> FALSE])
    /\ \E n \in 1..MaxLen : \E e \in [1..n -> ReduceTerms] :
          /\ heap = Alloc(EmptyHeap, Addr("v", 1), e)
          /\ vars = <<Slice(Addr("v", 1), n)>>
    /\ ret = [op |-> "NewCompiler"]

NextReduce == \E i \in 1..Len(vars) : Reduce(i)

SpecReduce == InitReduce /\ [][NextReduce]_vars_all

-----------------------------------------------------------------------------
(* Several hints, one feeding another *)

\* the builder after AddSecretVariable("a") and SetSchema(), the caller
\* holding the secret Variable; every constraint it adds has the secret
\* Variable as its R
InitHints ==
    /\ Public = <<"one">>
    /\ Secret = <<"a">>
    /\ NbInternalVariables = 0
    /\ Schema = "set"
    /\ config = [IgnoreUnconstrainedInputs |-> FALSE]
    /\ Constraints = <<>>
    /\ MHints = NoHints
    /\ hints = <<>>
    /\ mtBooleans = NoBooleans
    /\ res = NoResult
    /\ pc = "build"
    /\ marked = {}
    /\ allocated = <<[vis |-> "Secret", vID |-> 0]>>
    /\ heap = Alloc(EmptyHeap, Addr("v", 1), <<Pack(0, CoeffIdOne, "Secret")>>)
    /\ vars = <<Slice(Addr("v", 1), 1)>>
    /\ ret = [op |-> "SetSchema"]

NextHints ==
    \/ \E f \in HintFunctions, n \in 1..MaxHintOutputs, inputs \in HintInputLists :
          /\ Len(vars) + n <= MaxHintVars
          /\ Len(hints) < MaxHintRecords
          /\ NewHint(f, n, inputs)
    \/ \E i, k \in 1..Len(vars) :
          Len(Constraints) < MaxConstraints /\ addConstraint(i, 1, k)
    \/ \E ord \in IterationOrders(MHints) : Compile(ord)

SpecHints == InitHints /\ [][NextHints]_vars_all

-----------------------------------------------------------------------------
(* Levels, with and without the check of the inputs *)

\* the builder of NewCompiler with either configuration, after
\* AddSecretVariable("a") and SetSchema(), the caller holding the secret
\* Variable; every constraint it adds has the secret Variable as its R
InitLevels ==
    /\ Public = <<"one">>
    /\ Secret = <<"a">>
    /\ NbInternalVariables = 0
    /\ Schema = "set"
    /\ config \in {[IgnoreUnconstrainedInputs |-> b] : b \in BOOLEAN}
    /\ Constraints = <<>>
    /\ MHints = NoHints
    /\ hints = <<>>
    /\ mtBooleans = NoBooleans
    /\ res = NoResult
    /\ pc = "build"
    /\ marked = {}
    /\ allocated = <<[vis |-> "Secret", vID |-> 0]>>
    /\ heap = Alloc(EmptyHeap, Addr("v", 1), <<Pack(0, CoeffIdOne, "Secret")>>)
    /\ vars = <<Slice(Addr("v", 1), 1)>>
    /\ ret = [op |-> "SetSchema"]

NextLevels ==
    \/ Len(vars) < MaxLevelVars /\ newInternalVariable
    \/ \E f \in HintFunctions, n \in 1..MaxHintOutputs, inputs \in HintInputLists :
          /\ Len(vars) + n <= MaxLevelVars
          /\ Len(hints) < MaxHints
          /\ NewHint(f, n, inputs)
    \/ \E i, k \in 1..Len(vars) :
          Len(Constraints) < MaxLevelConstraints /\ addConstraint(i, 1, k)
    \/ \E ord \in IterationOrders(MHints) : Compile(ord)

SpecLevels == InitLevels /\ [][NextLevels]_vars_all

-----------------------------------------------------------------------------
(* The gates of GkrGateRegistry (constraint/bls12-377/gkr.go) *)

\* fr.Element, the field scaled down to Modulus
Elements == 0..(Modulus - 1)

\* for i := 2; i < len(x); i++ { res.Mul(&res, &x[2]) }
RECURSIVE MulLoop(_, _, _)
MulLoop(r, x, i) ==
    IF i >= Len(x) THEN r ELSE MulLoop((r * x[3]) % Modulus, x, i + 1)

\* mulGate.Evaluate for the gate mulGate(g)
mulGateEvaluate(g, x) ==
    IF Len(x) # g THEN [panic |-> TRUE]
    ELSE [panic |-> FALSE,
          res |-> CASE Len(x) = 0 -> 1 % Modulus
                    [] Len(x) = 1 -> x[1]
                    [] OTHER -> MulLoop((x[1] * x[2]) % Modulus, x, 2)]

\* for i := 2; i < len(x); i++ { res.Add(&res, &x[2]) }
RECURSIVE AddLoop(_, _, _)
AddLoop(r, x, i) ==
    IF i >= Len(x) THEN r ELSE AddLoop((r + x[3]) % Modulus, x, i + 1)

\* addGate.Evaluate: the switch has the cases 0, 1 and 2 and no default, so
\* res keeps its zero value for three inputs and more
addGateEvaluate(x) ==
    [panic |-> FALSE,
     res |-> CASE Len(x) = 0 -> 0
               [] Len(x) = 1 -> x[1]
               [] Len(x) = 2 -> AddLoop((x[1] + x[2]) % Modulus, x, 2)
               [] OTHER -> 0]

\* subGate.Evaluate: element[0] and element[1] are read whatever the length
subGateEvaluate(element) ==
    IF Len(element) > 2 \/ Len(element) < 2 THEN [panic |-> TRUE]
    ELSE [panic |-> FALSE, res |-> (element[1] - element[2]) % Modulus]

\* negGate.Evaluate
negGateEvaluate(element) ==
    IF Len(element) # 1 THEN [panic |-> TRUE]
    ELSE [panic |-> FALSE, res |-> (0 - element[1]) % Modulus]

GkrGateRegistry ==
    [mul |-> [type |-> "mulGate", g |-> 2],
     add |-> [type |-> "addGate"],
     sub |-> [type |-> "subGate"],
     neg |-> [type |-> "negGate"]]

\* gate.Evaluate(x...) by the dynamic type of the gate
Evaluate(gate, x) ==
    CASE gate.type = "mulGate" -> mulGateEvaluate(gate.g, x)
      [] gate.type = "addGate" -> addGateEvaluate(x)
      [] gate.type = "subGate" -> subGateEvaluate(x)
      [] gate.type = "negGate" -> negGateEvaluate(x)

GateInputs == UNION {[1..n -> Elements] : n \in 0..MaxGateInputs}

\* GkrGateRegistry[name].Evaluate(x...)
CallEvaluate(name, x) ==
    /\ pc = "build"
    /\ LET out == Evaluate(GkrGateRegistry[name], x)
       IN /\ ret' = [op |-> "Evaluate", gate |-> name, x |-> x, out |-> out]
          /\ pc' = IF out.panic THEN "panic" ELSE pc
    /\ UNCHANGED <<Public, Secret, NbInternalVariables, Schema, config, Constraints,
                   MHints, hints, mtBooleans, heap, vars, res, marked, allocated>>

NextGates == \E name \in DOMAIN GkrGateRegistry, x \in GateInputs : CallEvaluate(name, x)

SpecGates == Init /\ [][NextGates]_vars_all

-----------------------------------------------------------------------------
(* gkrSolveHint (constraint/bls12-377/gkr.go): one call of the hint.  The    *)
(* state of the call is held in res: the chunks, the index chunkI of the    *)
(* chunk the loop is at, start, the tasks of the worker pool, the instances *)
(* solved in the assignment, and what setOuts copied to outs.  pc is the    *)
(* position of the goroutine that runs the hint.                            *)

\* circuit.Chunks(nbInstances): the ends of the chunks, ascending
ChunkLists ==
    {c \in UNION {[1..n -> 1..MaxInstances] : n \in 0..MaxInstances} :
        \A i, j \in DOMAIN c : i < j => c[i] < c[j]}

\* the ways the pool may cut the range 0..total into blocks: the places
\* where a block ends and the next one begins
Cuts(total) == SUBSET (1..(total - 1))

\* workers.Dispatch(total, minBlock, task) for the chunk k, the task being
\* solveTask(chunkOffset): one queued task per block [lo, hi) of the range
\* cut at cuts, running from lo + chunkOffset to hi + chunkOffset
Dispatch(total, cuts, chunkOffset, k) ==
    LET ends == cuts \cup {total}
        lo(hi) == IF \E c \in cuts : c < hi
                  THEN CHOOSE c \in cuts : c < hi /\ \A d \in cuts : d < hi => d <= c
                  ELSE 0
        n == Cardinality(ends)
        nth == CHOOSE f \in [1..n -> ends] : \A i, j \in 1..n : i < j => f[i] < f[j]
    IN IF total <= 0 THEN <<>>
       ELSE [i \in 1..n |-> [chunk |-> k,
                              start |-> lo(nth[i]) + chunkOffset,
                              end |-> nth[i] + chunkOffset,
                              instanceI |-> lo(nth[i]) + chunkOffset,
                              st |-> "queued"]]

\* Job.Wait() returns: every task of the job dispatched for chunk k is done
JobDone(tasks, k) ==
    \A i \in 1..Len(tasks) : tasks[i].chunk = k => tasks[i].st = "done"

\* the call of the hint begins: solvingData.init(info), circuit.Chunks
InitGkr ==
    /\ Public = <<"one">>
    /\ Secret = <<>>
    /\ NbInternalVariables = 0
    /\ Schema = "nil"
    /\ config = [IgnoreUnconstrainedInputs |-> FALSE]
    /\ Constraints = <<>>
    /\ MHints = NoHints
    /\ hints = <<>>
    /\ mtBooleans = NoBooleans
    /\ marked = {}
    /\ allocated = <<>>
    /\ heap = EmptyHeap
    /\ vars = <<>>
    /\ ret = [op |-> "gkrSolveHint", returned |-> FALSE]
    /\ \E c \in ChunkLists :
          res = [chunks |-> c, chunkI |-> 1, start |-> 0, tasks |-> <<>>,
                 solved |-> {}, outs |-> {}, outsSet |-> FALSE]
    /\ pc = "loop"

KeepBuilder ==
    UNCHANGED <<Public, Secret, NbInternalVariables, Schema, config, Constraints,
                MHints, hints, mtBooleans, heap, vars, marked, allocated>>

\* the loop found every task of the chunk done or not: it goes on either way
ChunkNoWait ==
    /\ pc = "wait"
    /\ res' = [res EXCEPT !.start = res.chunks[res.chunkI], !.chunkI = @ + 1]
    /\ pc' = "loop"
    /\ ret' = ret
    /\ KeepBuilder

\* for _, end := range chunks { workers.Dispatch(end-start, 1024, solveTask(start))
ChunkDispatch ==
    /\ pc = "loop"
    /\ res.chunkI <= Len(res.chunks)
    /\ \E cuts \in Cuts(res.chunks[res.chunkI] - res.start) :
          res' = [res EXCEPT !.tasks = @ \o Dispatch(res.chunks[res.chunkI] - res.start,
                                                      cuts, res.start, res.chunkI)]
    /\ pc' = "wait"
    /\ ret' = ret
    /\ KeepBuilder

\* .Wait(); start = end }
ChunkWait ==
    /\ pc = "wait"
    /\ JobDone(res.tasks, res.chunkI)
    /\ res' = [res EXCEPT !.start = res.chunks[res.chunkI], !.chunkI = @ + 1]
    /\ pc' = "loop"
    /\ ret' = ret
    /\ KeepBuilder

\* a worker of the pool takes the queued task i
TaskStart(i) ==
    /\ res.tasks[i].st = "queued"
    /\ res' = [res EXCEPT !.tasks[i].st = "running"]
    /\ UNCHANGED <<pc, ret>>
    /\ KeepBuilder

\* for instanceI := start; instanceI < end; instanceI++: the task i solves
\* every wire of the instance into the assignment
TaskSolve(i) ==
    /\ res.tasks[i].st = "running"
    /\ res.tasks[i].instanceI < res.tasks[i].end
    /\ res' = [res EXCEPT !.tasks[i].instanceI = @ + 1,
                          !.solved = @ \cup {res.tasks[i].instanceI}]
    /\ UNCHANGED <<pc, ret>>
    /\ KeepBuilder

\* the loop of the task i ends: memoryPool.Dump(inputs), and the task is done
TaskEnd(i) ==
    /\ res.tasks[i].st = "running"
    /\ res.tasks[i].instanceI >= res.tasks[i].end
    /\ res' = [res EXCEPT !.tasks[i].st = "done"]
    /\ UNCHANGED <<pc, ret>>
    /\ KeepBuilder

\* the range over chunks is over: assignment.setOuts(info.Circuit, outs)
\* copies what the assignment holds
SetOuts ==
    /\ pc = "loop"
    /\ res.chunkI > Len(res.chunks)
    /\ res' = [res EXCEPT !.outs = res.solved, !.outsSet = TRUE]
    /\ pc' = "return"
    /\ ret' = ret
    /\ KeepBuilder

\* return nil
Return ==
    /\ pc = "return"
    /\ ret' = [op |-> "gkrSolveHint", returned |-> TRUE, err |-> [nil |-> TRUE]]
    /\ pc' = "returned"
    /\ res' = res
    /\ KeepBuilder

NextGkr ==
    \/ ChunkDispatch
    \/ ChunkWait
    \/ \E i \in 1..Len(res.tasks) : TaskStart(i)
    \/ \E i \in 1..Len(res.tasks) : TaskSolve(i)
    \/ \E i \in 1..Len(res.tasks) : TaskEnd(i)
    \/ SetOuts
    \/ Return

SpecGkr == InitGkr /\ [][NextGkr]_vars_all

-----------------------------------------------------------------------------
(* Constants: ConstantValue, and MarkBoolean and IsBoolean on any Variable *)

\* Variable.AssertIsSet: a Variable with no term is unset
AssertIsSet(le) == Len(le) # 0

\* utils.FromInterface(v) for an integer value
FromInterface(val) == val

\* the values a caller passes where a Variable is expected
ConstantInputs == {-1, 0, 1, 2}

ConstantTerms ==
    {Pack(w, c, v) : w \in {0, 1}, c \in {CoeffIdZero, CoeffIdOne, CoeffIdTwo, CoeffIdMinusOne},
                     v \in {"Public", "Secret"}}

\* the builder after AddSecretVariable("a") and SetSchema(), the caller
\* holding a Variable v with any terms and the secret Variable x, either
\* before or after MarkBoolean(x)
InitConstants ==
    /\ Public = <<"one">>
    /\ Secret = <<"a">>
    /\ NbInternalVariables = 0
    /\ Schema = "set"
    /\ config = [IgnoreUnconstrainedInputs |-> FALSE]
    /\ Constraints = <<>>
    /\ MHints = NoHints
    /\ hints = <<>>
    /\ res = NoResult
    /\ pc = "build"
    /\ allocated = <<[vis |-> "Secret", vID |-> 0]>>
    /\ LET x == <<Pack(0, CoeffIdOne, "Secret")>>
       IN /\ \E n \in 1..2 : \E v \in [1..n -> ConstantTerms] :
                /\ heap = Alloc(Alloc(EmptyHeap, Addr("v", 1), v), Addr("v", 2), x)
                /\ vars = <<Slice(Addr("v", 1), n), Slice(Addr("v", 2), 1)>>
          /\ \/ /\ mtBooleans = NoBooleans
                /\ marked = {}
                /\ ret = [op |-> "SetSchema"]
             \/ /\ mtBooleans = [k \in {HashCode(x)} |-> <<Slice(Addr("v", 2), 1)>>]
                /\ marked = {x}
                /\ ret = [op |-> "MarkBoolean", constant |-> FALSE, l |-> x]

\* ConstantValue(v) called with arg: a Variable (its terms) or a plain value
CallConstantValue(arg) ==
    /\ pc = "build"
    /\ IF arg.kind = "Variable"
       THEN IF ~AssertIsSet(arg.le)
            THEN /\ pc' = "panic"
                 /\ ret' = [op |-> "ConstantValue", arg |-> arg, panic |-> TRUE]
            ELSE /\ pc' = pc
                 /\ ret' = [op |-> "ConstantValue", arg |-> arg, panic |-> FALSE,
                            out |-> ConstantValue(arg.le)]
       ELSE /\ pc' = pc
            /\ ret' = [op |-> "ConstantValue", arg |-> arg, panic |-> FALSE,
                       out |-> [ok |-> TRUE, val |-> FromInterface(arg.val)]]
    /\ UNCHANGED <<Public, Secret, NbInternalVariables, Schema, config, Constraints,
                   MHints, hints, mtBooleans, heap, vars, res, marked, allocated>>

\* the calls are made on the Variable v (vars[1]), on the Variable with no
\* term, or on a plain value
NextConstants ==
    \/ NbMarks <= MaxMarks /\ MarkBoolean(1)
    \/ IsBoolean(1)
    \/ \E arg \in {[kind |-> "Variable", le |-> Deref(heap, vars[1])],
                    [kind |-> "Variable", le |-> <<>>]}
                   \cup {[kind |-> "value", val |-> c] : c \in ConstantInputs} :
          CallConstantValue(arg)

SpecConstants == InitConstants /\ [][NextConstants]_vars_all

-----------------------------------------------------------------------------
(* Allocation alone, the caller not keeping to the two windows *)

\* every allocator and SetSchema called in any order, NewHint with any count
NextAlloc ==
    \/ Len(Public) < MaxAllocPublic /\ AddPublicVariable(NextLeafName)
    \/ Len(Secret) < MaxAllocSecret /\ AddSecretVariable(NextLeafName)
    \/ SetSchema
    \/ NbInternalVariables < MaxInternal /\ newInternalVariable
    \/ \E f \in HintFunctions, n \in -1..MaxHintOutputs :
          /\ NbInternalVariables + n <= MaxInternal
          /\ Len(hints) < MaxHints
          /\ NewHint(f, n, <<>>)

SpecAlloc == Init /\ [][NextAlloc]_vars_all

-----------------------------------------------------------------------------
(* Properties *)

\* the (wire, visibility) pairs an expression has terms for
Pairs(e) == {[vID |-> e[k].vID, vis |-> e[k].vis] : k \in 1..Len(e)}

\* the sum over the integers of the coefficients e attaches to pair pr
RECURSIVE CoeffSum(_, _)
CoeffSum(e, pr) ==
    IF e = <<>> THEN 0
    ELSE (IF e[1].vID = pr.vID /\ e[1].vis = pr.vis THEN Coeffs(e[1].cID) ELSE 0)
         + CoeffSum(SubSeq(e, 2, Len(e)), pr)

\* C5 (reduction correctness): what reduce returns for e is strictly ascending
\* by (visibility, wire ID), so it has one term per pair; its pairs are
\* exactly the pairs of e; each term's coefficient is congruent modulo p to
\* the sum of the coefficients e attaches to its pair; and a sum that is zero
\* modulo p is kept as a term with the zero coefficient.
C5_ReduceCorrect ==
    ret.op = "reduce" =>
        LET e == ret.in
            o == ret.out
        IN /\ \A k \in 2..Len(o) : Less(o[k-1], o[k])
           /\ Pairs(o) = Pairs(e)
           /\ \A k \in 1..Len(o) :
                LET sum == CoeffSum(e, [vID |-> o[k].vID, vis |-> o[k].vis])
                IN /\ (Coeffs(o[k].cID) - sum) % Modulus = 0
                   /\ (sum % Modulus = 0) => Coeffs(o[k].cID) = 0

\* three terms on one wire were merged into one
C5_Witness == ret.op = "reduce" /\ Len(ret.in) = 3 /\ Len(ret.out) = 1

\* C6 (reduction idempotence): reduce applied to what reduce returned gives
\* the same terms in the same order.
C6_ReduceIdempotent ==
    [][(ret.op = "reduce" /\ ret'.op = "reduce" /\ ret'.in = ret.out)
          => ret'.out = ret.out]_vars_all

\* reduce was applied to the result of a reduce that had merged terms
C6_Witness ==
    /\ ret.op = "reduce"
    /\ ret.in = ret.out
    /\ vars[1].n < Len(heap[vars[1].p])

\* the terms of the L, R and O of a stored constraint c, read in heap h
TermsOf(h, c) ==
    LET l == Deref(h, c.L)
        r == Deref(h, c.R)
        o == Deref(h, c.O)
    IN {l[k] : k \in 1..Len(l)} \cup {r[k] : k \in 1..Len(r)} \cup {o[k] : k \in 1..Len(o)}

\* the non-input wires (final IDs) a compiled constraint refers to
NonInputWires(c) ==
    {t.vID : t \in {u \in TermsOf(heap, c) :
                       u.vID >= res.NbPublicVariables + res.NbSecretVariables}}

\* C1 as stated (level safety): after buildLevels, every non-input wire a
\* constraint c refers to that is recorded as resolved by a constraint c' has
\* level(c') < level(c) -- the constraint c itself included.
C1_LevelSafetyAnyResolver ==
    pc = "done" =>
        \A c \in 1..Len(Constraints) : \A w \in NonInputWires(Constraints[c]) :
            w \in DOMAIN res.mWireToNode =>
                res.nodeLevels[res.mWireToNode[w]] < res.nodeLevels[c - 1]

\* C1 (level safety): after buildLevels, every non-input wire a constraint c
\* refers to that is recorded as resolved by another constraint c' has
\* level(c') < level(c).
C1_LevelSafety ==
    pc = "done" =>
        \A c \in 1..Len(Constraints) : \A w \in NonInputWires(Constraints[c]) :
            (w \in DOMAIN res.mWireToNode /\ res.mWireToNode[w] # c - 1) =>
                res.nodeLevels[res.mWireToNode[w]] < res.nodeLevels[c - 1]

\* a compiled constraint refers to a wire that an earlier constraint resolved
C1_Witness ==
    /\ pc = "done"
    /\ \E c \in 1..Len(Constraints) : \E w \in NonInputWires(Constraints[c]) :
          w \in DOMAIN res.mWireToNode /\ res.mWireToNode[w] # c - 1

\* the wires of visibility vis that some stored constraint refers to with a
\* coefficient other than zero
Referenced(vis) ==
    {t.vID : t \in {u \in UNION {TermsOf(heap, Constraints[c]) : c \in 1..Len(Constraints)} :
                       u.vis = vis /\ u.cID # CoeffIdZero}}

UnreferencedSecret == {i \in 0..(Len(Secret) - 1) : i \notin Referenced("Secret")}
UnreferencedPublic == {i \in 1..(Len(Public) - 1) : i \notin Referenced("Public")}
UnreferencedHint == {w \in DOMAIN MHints : w \notin Referenced("Internal")}

\* the set of the names in a list
NameSet(names) == {names[k] : k \in 1..Len(names)}

\* C2 (unconstrained detection): with IgnoreUnconstrainedInputs false, when a
\* secret input, a public input other than wire 0 or a hint output wire has
\* no term with a non-zero coefficient in any stored constraint, Compile
\* returns an error that names every such secret and public input and gives
\* the number of such hint output wires.
C2_UnconstrainedDetected ==
    [][(pc = "build" /\ ret'.op = "Compile" /\ pc' # "build"
          /\ ~config.IgnoreUnconstrainedInputs
          /\ UnreferencedSecret \cup UnreferencedPublic \cup UnreferencedHint # {})
        => /\ pc' = "failed"
           /\ ~ret'.err.nil
           /\ NameSet(ret'.err.secret) = {Secret[i + 1] : i \in UnreferencedSecret}
           /\ NameSet(ret'.err.public) = {Public[i + 1] : i \in UnreferencedPublic}
           /\ ret'.err.cptHints = Cardinality(UnreferencedHint)]_vars_all

\* Compile failed naming a secret input that a stored constraint refers to,
\* but only with the zero coefficient
C2_Witness ==
    /\ pc = "failed"
    /\ \E i \in UnreferencedSecret :
          /\ Secret[i + 1] \in NameSet(ret.err.secret)
          /\ \E c \in 1..Len(Constraints) : \E t \in TermsOf(heap, Constraints[c]) :
                t.vis = "Secret" /\ t.vID = i /\ t.cID = CoeffIdZero

\* a term with its wire ID moved to the final numbering for P public and S
\* secret wires
Moved(t, P, S) ==
    [t EXCEPT !.vID = CASE t.vis = "Public" -> @
                        [] t.vis = "Secret" -> @ + P
                        [] t.vis = "Internal" -> @ + P + S]

\* the L, R and O of a stored constraint by content, read in heap h
Stored(h, c) == [L |-> Deref(h, c.L), R |-> Deref(h, c.R), O |-> Deref(h, c.O)]

\* an expression with every term moved to the final numbering
MovedLE(le, P, S) == [k \in 1..Len(le) |-> Moved(le[k], P, S)]

\* C3 (wire offset correctness): a successful Compile with P public wires
\* (wire 0 included) and S secret wires rewrites the wire ID of every term of
\* every stored constraint exactly once, Public -> old, Secret -> old + P,
\* Internal -> old + P + S, and leaves coefficient IDs and visibilities alone,
\* also when several constraints were built from the same Variable.
C3_WireOffset ==
    [][(pc = "build" /\ pc' = "done") =>
        /\ Len(Constraints') = Len(Constraints)
        /\ \A c \in 1..Len(Constraints) :
              LET old == Stored(heap, Constraints[c])
                  new == Stored(heap', Constraints'[c])
              IN /\ new.L = MovedLE(old.L, Len(Public), Len(Secret))
                 /\ new.R = MovedLE(old.R, Len(Public), Len(Secret))
                 /\ new.O = MovedLE(old.O, Len(Public), Len(Secret))]_vars_all

\* compiled with two public wires and one secret wire: two constraints built
\* from the same Variables, holding a secret and an internal term
C3_Witness ==
    /\ pc = "done"
    /\ res.NbPublicVariables = 2 /\ res.NbSecretVariables = 1
    /\ Len(Constraints) = 2
    /\ Stored(heap, Constraints[1]) = Stored(heap, Constraints[2])
    /\ \E t, u \in TermsOf(heap, Constraints[1]) : t.vis = "Secret" /\ u.vis = "Internal"

\* every wire handed out, the reserved wire 0 first
AllWires == <<[vis |-> "Public", vID |-> 0]>> \o allocated

\* the final ID Compile gives wire a
FinalID(a) == shiftVID(a.vID, a.vis, res.NbPublicVariables, res.NbSecretVariables)

\* C4 (final layout): after Compile every public wire has its final ID in
\* [0, P), every secret wire in [P, P+S), every internal wire in
\* [P+S, P+S+I); two distinct wires never share a final ID; and within a
\* class a wire allocated earlier has the smaller final ID.
C4_FinalLayout ==
    pc = "done" =>
        LET P == res.NbPublicVariables
            S == res.NbSecretVariables
            I == NbInternalVariables
        IN /\ \A k \in 1..Len(AllWires) :
                LET a == AllWires[k]
                IN CASE a.vis = "Public" -> 0 <= FinalID(a) /\ FinalID(a) < P
                     [] a.vis = "Secret" -> P <= FinalID(a) /\ FinalID(a) < P + S
                     [] a.vis = "Internal" -> P + S <= FinalID(a) /\ FinalID(a) < P + S + I
           /\ \A j, k \in 1..Len(AllWires) :
                j < k => /\ FinalID(AllWires[j]) # FinalID(AllWires[k])
                         /\ AllWires[j].vis = AllWires[k].vis
                               => FinalID(AllWires[j]) < FinalID(AllWires[k])

\* compiled with wires of the three classes, two of them public
C4_Witness ==
    /\ pc = "done"
    /\ res.NbPublicVariables = 2 /\ res.NbSecretVariables = 1 /\ NbInternalVariables >= 1

AllocatedSet(hist) == {hist[k] : k \in 1..Len(hist)}

\* C9 (hint output count): NewHint(f, n, inputs...) with n >= 1 returns n
\* Variables, each one term with coefficient one on an Internal wire, the
\* wires distinct and returned by no earlier allocation; it advances the
\* internal counter by n and registers one Hint record, found under each of
\* the n wires, whose wire list is those wires in order.
C9_HintOutputs ==
    [][(ret'.op = "NewHint" /\ ret' # ret /\ ret'.nbOutputs >= 1) =>
        LET n == ret'.nbOutputs
            out == ret'.out
        IN /\ ~ret'.err
           /\ Len(out) = n
           /\ \A k \in 1..n :
                 /\ Len(out[k]) = 1
                 /\ out[k][1].cID = CoeffIdOne
                 /\ out[k][1].vis = "Internal"
                 /\ [vis |-> "Internal", vID |-> out[k][1].vID] \notin AllocatedSet(allocated)
           /\ \A j, k \in 1..n : j # k => out[j][1].vID # out[k][1].vID
           /\ NbInternalVariables' = NbInternalVariables + n
           /\ Len(hints') = Len(hints) + 1
           /\ \A k \in 1..n :
                 /\ out[k][1].vID \in DOMAIN MHints'
                 /\ MHints'[out[k][1].vID] = Len(hints')
           /\ hints'[Len(hints')].Wires = [k \in 1..n |-> out[k][1].vID]]_vars_all

\* NewHint returned two outputs after an internal wire had been allocated
C9_Witness ==
    /\ ret.op = "NewHint" /\ ~ret.err /\ ret.nbOutputs = 2
    /\ Len(ret.out) = 2
    /\ [vis |-> "Internal", vID |-> 0] \in AllocatedSet(SubSeq(allocated, 1, Len(allocated) - 2))

\* C8 (no aliasing of stored constraints): once a constraint is stored, no
\* later call other than a successful Compile changes its L, R or O, whatever
\* the caller does to the Variables it was built from (reduce, the sort of
\* MarkBoolean or IsBoolean); and a successful Compile rewrites every stored
\* constraint from its own terms alone, whatever the other constraints are.
C8_NoAliasing ==
    [][\A c \in 1..Len(Constraints) :
          /\ c <= Len(Constraints')
          /\ IF pc = "build" /\ pc' = "done"
             THEN LET old == Stored(heap, Constraints[c])
                      P == Len(Public)
                      S == Len(Secret)
                  IN Stored(heap', Constraints'[c]) =
                        [L |-> MovedLE(old.L, P, S), R |-> MovedLE(old.R, P, S),
                         O |-> MovedLE(old.O, P, S)]
             ELSE Stored(heap', Constraints'[c]) = Stored(heap, Constraints[c])]_vars_all

\* reduce rewrote, in place, a Variable a stored constraint was built from
C8_Witness ==
    /\ ret.op = "reduce"
    /\ ret.in # ret.out
    /\ \E c \in 1..Len(Constraints) : \E i \in 1..Len(vars) :
          /\ Stored(heap, Constraints[c]).O = ret.in
          /\ Deref(heap, vars[i]) = ret.out
          /\ SubSeq(heap[vars[i].p], 1, Len(ret.in)) # ret.in

\* C10 as stated (boolean memoization), its first part: once a non-constant
\* expression was passed to MarkBoolean, IsBoolean returns true for it in
\* every later state.
C10_MarkedStaysBoolean ==
    (ret.op = "IsBoolean" /\ ~ret.constant /\ ret.l \in marked) => ret.out

\* C13 (allocation window): after SetSchema, AddPublicVariable and
\* AddSecretVariable are fatal usage errors that leave the public and secret
\* lists unchanged, and a second SetSchema is a fatal usage error; before
\* SetSchema each allocation appends one name to its own list and nothing to
\* the other.
C13_AllocationWindow ==
    [][/\ (ret'.op \in {"AddPublicVariable", "AddSecretVariable"} /\ Schema = "set")
            => pc' = "panic" /\ Public' = Public /\ Secret' = Secret
       /\ (ret'.op = "SetSchema" /\ Schema = "set") => pc' = "panic" /\ Schema' = Schema
       /\ (ret'.op = "SetSchema" /\ Schema = "nil") => pc' = "build" /\ Schema' = "set"
       /\ (ret'.op = "AddPublicVariable" /\ Schema = "nil")
            => /\ pc' = "build"
               /\ Len(Public') = Len(Public) + 1
               /\ SubSeq(Public', 1, Len(Public)) = Public
               /\ Secret' = Secret
       /\ (ret'.op = "AddSecretVariable" /\ Schema = "nil")
            => /\ pc' = "build"
               /\ Len(Secret') = Len(Secret) + 1
               /\ SubSeq(Secret', 1, Len(Secret)) = Secret
               /\ Public' = Public]_vars_all

\* AddSecretVariable was refused after SetSchema, having succeeded before it
C13_Witness ==
    /\ pc = "panic"
    /\ ret.op = "AddSecretVariable"
    /\ Schema = "set"
    /\ Len(Secret) >= 1

\* the wire IDs of class vis in the order they were handed out
RECURSIVE IDsOf(_, _)
IDsOf(hist, vis) ==
    IF hist = <<>> THEN <<>>
    ELSE (IF hist[1].vis = vis THEN <<hist[1].vID>> ELSE <<>>)
         \o IDsOf(SubSeq(hist, 2, Len(hist)), vis)

\* C14 (wire ID allocation invariant): in every state, within each class the
\* wire IDs handed out increase strictly in allocation order (so none is
\* handed out twice); the first public wire handed out is 1, wire 0 being
\* reserved, the first secret wire 0, the first internal wire 0; and every
\* wire ID handed out is below the current count of its class.
C14_AllocationInvariant ==
    LET pub == IDsOf(allocated, "Public")
        sec == IDsOf(allocated, "Secret")
        int == IDsOf(allocated, "Internal")
    IN /\ \A ids \in {pub, sec, int} : \A k \in 2..Len(ids) : ids[k - 1] < ids[k]
       /\ Public[1] = "one"
       /\ pub # <<>> => pub[1] = 1
       /\ sec # <<>> => sec[1] = 0
       /\ int # <<>> => int[1] = 0
       /\ \A k \in 1..Len(pub) : pub[k] < Len(Public)
       /\ \A k \in 1..Len(sec) : sec[k] < Len(Secret)
       /\ \A k \in 1..Len(int) : int[k] < NbInternalVariables

\* two wires of every class were handed out
C14_Witness ==
    /\ Len(IDsOf(allocated, "Public")) >= 2
    /\ Len(IDsOf(allocated, "Secret")) >= 2
    /\ Len(IDsOf(allocated, "Internal")) >= 2

\* C15 (NewHint with nbOutputs <= 0): the call returns an error and no
\* Variable, leaves the internal wire counter unchanged and registers
\* nothing in the hint map.
C15_NewHintRejected ==
    [][(ret'.op = "NewHint" /\ ret'.nbOutputs <= 0) =>
        /\ ret'.err
        /\ ret'.out = <<>>
        /\ NbInternalVariables' = NbInternalVariables
        /\ MHints' = MHints
        /\ hints' = hints
        /\ allocated' = allocated
        /\ vars' = vars]_vars_all

\* NewHint was called with zero outputs on a builder that has internal wires
C15_Witness ==
    /\ ret.op = "NewHint"
    /\ ret.nbOutputs = 0
    /\ ret.err
    /\ NbInternalVariables >= 1

\* C16 (all-or-nothing compilation): when the unconstrained-input check
\* fails, Compile returns the error and no constraint system, and no wire ID
\* of a stored constraint or hint input has been rewritten: the builder's
\* stored state is what it was before the call.
C16_AllOrNothing ==
    [][(pc = "build" /\ pc' = "failed") =>
        /\ ret'.op = "Compile"
        /\ ~ret'.err.nil
        /\ res' = NoResult
        /\ heap' = heap
        /\ Constraints' = Constraints
        /\ hints' = hints
        /\ MHints' = MHints
        /\ <<Public', Secret', NbInternalVariables', Schema', mtBooleans'>>
              = <<Public, Secret, NbInternalVariables, Schema, mtBooleans>>]_vars_all

\* Compile failed on a builder that stores a constraint with an internal term
\* and a hint with an expression among its inputs
C16_Witness ==
    /\ pc = "failed"
    /\ \E c \in 1..Len(Constraints) : \E t \in TermsOf(heap, Constraints[c]) :
          t.vis = "Internal"
    /\ \E h \in 1..Len(hints) : \E k \in 1..Len(hints[h].Inputs) :
          hints[h].Inputs[k].kind = "LinearExpression"

\* C19 as stated (check soundness): with IgnoreUnconstrainedInputs false,
\* Compile returns a validation error only if some secret input, some public
\* input other than wire 0 or some hint output wire has no term with a
\* non-zero coefficient in any stored constraint; a builder with no inputs, no
\* hints and no constraints passes the check.
C19_CheckSound ==
    [][(pc = "build" /\ pc' = "failed" /\ ~config.IgnoreUnconstrainedInputs)
          => UnreferencedSecret \cup UnreferencedPublic \cup UnreferencedHint # {}]_vars_all

\* an expression is one term on wire 0 of class Public
OneTermOnWireZero(le) == Len(le) = 1 /\ le[1].vID = 0 /\ le[1].vis = "Public"

CompiledContent(h, sm, rh, lv) ==
    [constraints |-> [c \in 1..Len(Constraints) |-> Stored(h, Constraints[c])],
     hints |-> [w \in DOMAIN sm |-> rh[sm[w]]],
     levels |-> lv]

\* what a successful Compile of the current builder hands over when its
\* range over the hint map visits the keys in the order ord
CompileOutcome(ord) ==
    LET nbPublic == Len(Public)
        nbSecret == Len(Secret)
        h1 == OffsetConstraints(heap, 1, nbPublic, nbSecret)
        hl == HintLoop(ord, 1, NoHints, <<>>, nbPublic, nbSecret)
        ccs == [MHints |-> hl.shiftedMap, hints |-> hl.hints,
                nbInputs |-> nbPublic + nbSecret]
    IN CompiledContent(h1, hl.shiftedMap, hl.hints, buildLevels(ccs, h1).levels)

\* what the finished Compile handed over
Compiled == CompiledContent(heap, res.MHints, res.hints, res.Levels)

\* C11 (determinism): whatever the order in which Compile's range over the
\* hint map visits the keys, a successful Compile of the same builder hands
\* over the same constraint lists, the same finalized hint under the same
\* keys (function, rewritten inputs and output wires) and the same levels.
C11_Determinism ==
    [][(pc = "build" /\ pc' = "done") =>
        \A ord \in IterationOrders(MHints) : CompileOutcome(ord) = Compiled']_vars_all

\* Compile finalized two hints, the second registered one visited first
C11_Witness ==
    /\ pc = "done"
    /\ Len(res.hints) = 2
    /\ res.hints[1].Wires[1] > res.hints[2].Wires[1]
    /\ Len(res.Levels) = 2

\* C12 (finalized hint map): after a successful Compile with P public and S
\* secret wires, each registered hint with outputs w1..wn is found under
\* each wi + P + S and the map has no other key; the n entries of a hint are
\* one record, a record of its own; its wire list is the shifted outputs in
\* order, its function the registered one, its constant inputs the
\* registered ones and its expression inputs the registered ones with every
\* wire shifted once; the registered hints themselves are left as they were.
C12_FinalizedHints ==
    [][(pc = "build" /\ pc' = "done") =>
        LET P == Len(Public)
            S == Len(Secret)
            Key(h, k) == hints[h].Wires[k] + P + S
        IN /\ DOMAIN res'.MHints =
                  {Key(h, k) : <<h, k>> \in
                       {x \in (1..Len(hints)) \X (1..MaxHintOutputs) :
                            x[2] <= Len(hints[x[1]].Wires)}}
           /\ Len(res'.hints) = Len(hints)
           /\ hints' = hints
           /\ \A h \in 1..Len(hints) :
                 LET ptr == res'.MHints[Key(h, 1)]
                     r == res'.hints[ptr]
                 IN /\ \A k \in 1..Len(hints[h].Wires) : res'.MHints[Key(h, k)] = ptr
                    /\ \A g \in 1..Len(hints) :
                          g # h => res'.MHints[Key(g, 1)] # ptr
                    /\ r.Wires = [k \in 1..Len(hints[h].Wires) |-> Key(h, k)]
                    /\ r.ID = hints[h].ID
                    /\ Len(r.Inputs) = Len(hints[h].Inputs)
                    /\ \A j \in 1..Len(r.Inputs) :
                          IF hints[h].Inputs[j].kind = "constant"
                          THEN r.Inputs[j] = hints[h].Inputs[j]
                          ELSE /\ r.Inputs[j].kind = "LinearExpression"
                               /\ r.Inputs[j].le = MovedLE(hints[h].Inputs[j].le, P, S)]_vars_all

\* Compile finalized a hint of two outputs whose input is the output of
\* another hint, next to a hint of a constant input
C12_Witness ==
    /\ pc = "done"
    /\ \E h \in 1..Len(hints) :
          /\ Len(hints[h].Wires) = 2
          /\ Len(hints[h].Inputs) = 1
          /\ hints[h].Inputs[1].kind = "LinearExpression"
          /\ hints[h].Inputs[1].le[1].vis = "Internal"
    /\ \E h \in 1..Len(hints) :
          Len(hints[h].Inputs) = 1 /\ hints[h].Inputs[1].kind = "constant"

\* the non-input wires in the expression inputs of the finalized hint ptr
HintInputWires(ptr) ==
    LET ins == res.hints[ptr].Inputs
        les == {j \in 1..Len(ins) : ins[j].kind = "LinearExpression"}
    IN {w \in UNION {{ins[j].le[k].vID : k \in 1..Len(ins[j].le)} : j \in les} :
           w >= res.NbPublicVariables + res.NbSecretVariables}

\* those wires, and through the hints whose outputs are among them, the
\* wires in their inputs, d hints deep
RECURSIVE InputWires(_, _)
InputWires(ptr, d) ==
    HintInputWires(ptr) \cup
        IF d = 0 THEN {}
        ELSE UNION {InputWires(res.MHints[w], d - 1) :
                        w \in HintInputWires(ptr) \cap DOMAIN res.MHints}

\* the output wires of the finalized hint ptr
OutputWires(ptr) == {res.hints[ptr].Wires[k] : k \in 1..Len(res.hints[ptr].Wires)}

\* the non-input wires constraint c (counted from 1) refers to, in its own
\* terms or through the inputs of the hints whose outputs it refers to
ReachedWires(c) ==
    NonInputWires(Constraints[c]) \cup
        UNION {InputWires(res.MHints[w], MaxHintRecords) :
                   w \in NonInputWires(Constraints[c]) \cap DOMAIN res.MHints}

\* the constraint recorded for c (counted from 1) has a level above that of
\* every earlier constraint recorded as resolving an input wire of the hint
\* ptr, and it is recorded as resolving every output wire of the hint
InputsBeforeOutputs(ptr, c) ==
    /\ \A x \in InputWires(ptr, MaxHintRecords) :
          (x \in DOMAIN res.mWireToNode /\ res.mWireToNode[x] < c - 1) =>
              res.nodeLevels[res.mWireToNode[x]] < res.nodeLevels[c - 1]
    /\ \A w \in OutputWires(ptr) :
          w \in DOMAIN res.mWireToNode /\ res.mWireToNode[w] = c - 1

\* C20 as stated (hint inputs before outputs): the first constraint with a
\* term on an output wire of a hint has a level above that of every earlier
\* constraint recorded as resolving a wire in the hint's inputs, through
\* nested hints too, and is recorded as resolving all outputs of the hint.
C20_FirstTermOnOutput ==
    pc = "done" =>
        \A ptr \in 1..Len(res.hints) : \A c \in 1..Len(Constraints) :
            (/\ NonInputWires(Constraints[c]) \cap OutputWires(ptr) # {}
             /\ \A e \in 1..(c - 1) :
                   NonInputWires(Constraints[e]) \cap OutputWires(ptr) = {})
                => InputsBeforeOutputs(ptr, c)

\* C20 (hint inputs before outputs): the first constraint that refers to an
\* output wire of a hint, in its own terms or through the inputs of a hint
\* whose output it refers to, has a level above that of every earlier
\* constraint recorded as resolving a wire in the hint's inputs, through
\* nested hints too, and is recorded as resolving all outputs of the hint.
C20_InputsBeforeOutputs ==
    pc = "done" =>
        \A ptr \in 1..Len(res.hints) : \A c \in 1..Len(Constraints) :
            (/\ ReachedWires(c) \cap OutputWires(ptr) # {}
             /\ \A e \in 1..(c - 1) : ReachedWires(e) \cap OutputWires(ptr) = {})
                => InputsBeforeOutputs(ptr, c)

\* the second constraint was the first to refer to the outputs of a hint
\* whose input is the output of a hint the first constraint had resolved
C20_Witness ==
    /\ pc = "done"
    /\ Len(Constraints) = 2
    /\ \E ptr \in 1..Len(res.hints) :
          /\ ReachedWires(2) \cap OutputWires(ptr) # {}
          /\ ReachedWires(1) \cap OutputWires(ptr) = {}
          /\ \E x \in InputWires(ptr, MaxHintRecords) :
                x \in DOMAIN res.mWireToNode /\ res.mWireToNode[x] = 0
          /\ res.nodeLevels[1] = 1

\* the places <<l, k>> of the levels at which the constraint index i stands
PlacesOf(i) ==
    {x \in (1..Len(res.Levels)) \X (1..Len(Constraints)) :
        x[2] <= Len(res.Levels[x[1]]) /\ res.Levels[x[1]][x[2]] = i}

\* C21 (level partition): the levels built by a successful Compile hold
\* nothing but constraint indices, every index 0..n-1 stands at exactly one
\* place, in the level recorded for it, and the indices of a level ascend.
C21_LevelPartition ==
    pc = "done" =>
        /\ \A l \in 1..Len(res.Levels) :
              /\ Len(res.Levels[l]) <= Len(Constraints)
              /\ \A k \in 1..Len(res.Levels[l]) :
                    res.Levels[l][k] \in 0..(Len(Constraints) - 1)
              /\ \A j, k \in 1..Len(res.Levels[l]) :
                    j < k => res.Levels[l][j] < res.Levels[l][k]
        /\ \A i \in 0..(Len(Constraints) - 1) :
              /\ Cardinality(PlacesOf(i)) = 1
              /\ \A x \in PlacesOf(i) : x[1] - 1 = res.nodeLevels[i]

\* three constraints were compiled, the first and the third in level 0 and
\* the second in level 1
C21_Witness ==
    /\ pc = "done"
    /\ res.Levels = <<(<<0, 2>>), (<<1>>)>>

\* the highest level among the constraints before c (a Go index), -1 for none
MaxLevelBefore(c) ==
    IF c = 0 THEN -1
    ELSE CHOOSE m \in {res.nodeLevels[e] : e \in 0..(c - 1)} :
             \A e \in 0..(c - 1) : res.nodeLevels[e] <= m

\* C22 (no gaps in the levels): after a successful Compile the first
\* constraint is at level 0, every constraint is at most one level above
\* the highest level of the constraints before it, the levels in use are
\* exactly 0..max, the append into the levels stays inside them and no
\* level is empty.
C22_NoGaps ==
    pc = "done" =>
        LET n == Len(Constraints)
            used == {res.nodeLevels[c] : c \in 0..(n - 1)}
        IN /\ n >= 1 => res.nodeLevels[0] = 0
           /\ \A c \in 0..(n - 1) :
                 res.nodeLevels[c] >= 0 /\ res.nodeLevels[c] <= MaxLevelBefore(c) + 1
           /\ used = 0..(MaxLevelBefore(n))
           /\ ~res.panic
           /\ Len(res.Levels) = Cardinality(used)
           /\ \A l \in 1..Len(res.Levels) : res.Levels[l] # <<>>

\* three constraints were compiled, each one level above the one before it
C22_Witness ==
    /\ pc = "done"
    /\ Len(Constraints) = 3
    /\ \A c \in 0..2 : res.nodeLevels[c] = c

\* C23 (disabling the check): with IgnoreUnconstrainedInputs true, Compile
\* returns no error and hands over the offset constraints, the rewritten
\* hints and the levels that the finalization of the checked case computes,
\* whatever is left unreferenced.
C23_CheckDisabled ==
    [][(pc = "build" /\ ret'.op = "Compile" /\ pc' # "build"
            /\ config.IgnoreUnconstrainedInputs) =>
        /\ ret'.err.nil
        /\ pc' = "done"
        /\ res'.built
        /\ res'.NbPublicVariables = Len(Public)
        /\ res'.NbSecretVariables = Len(Secret)
        /\ \A ord \in IterationOrders(MHints) : CompileOutcome(ord) = Compiled']_vars_all

\* with the check disabled a Compile went through although no compiled
\* constraint refers to an output wire of a hint
C23_Witness ==
    /\ pc = "done"
    /\ config.IgnoreUnconstrainedInputs
    /\ Len(Constraints) >= 1
    /\ \E w \in DOMAIN res.MHints :
          \A c \in 1..Len(Constraints) : w \notin NonInputWires(Constraints[c])

\* the sum of the elements of x in the field
RECURSIVE FieldSum(_)
FieldSum(x) == IF x = <<>> THEN 0 ELSE (x[1] + FieldSum(Tail(x))) % Modulus

\* C25 as stated (the add gate): the "add" gate of GkrGateRegistry evaluates
\* to the field sum of all the inputs it is given, whatever their number:
\* 0 for none, the input for one, x[0] + ... + x[k-1] for k of them.
C25_AddGateSums ==
    (ret.op = "Evaluate" /\ ret.gate = "add") =>
        ~ret.out.panic /\ ret.out.res = FieldSum(ret.x)

\* the task t has been started by a worker
Started(t) == t.st # "queued"

\* C24 (a hint call is one blocking unit with barriers): in gkrSolveHint no
\* task of a chunk has started unless every task of every chunk before it
\* is done and the loop has gone past those chunks; once setOuts has
\* written the outputs, and when the hint has returned, every chunk has
\* been dispatched, every task of every chunk is done and the outputs hold
\* every instance up to the end of the last chunk.
C24_ChunkBarrier ==
    /\ \A i, j \in 1..Len(res.tasks) :
          (res.tasks[i].chunk < res.tasks[j].chunk /\ Started(res.tasks[j])) =>
              res.tasks[i].st = "done"
    /\ \A j \in 1..Len(res.tasks) :
          /\ res.tasks[j].chunk <= res.chunkI
          /\ res.tasks[j].chunk < res.chunkI => res.tasks[j].st = "done"
    /\ (res.outsSet \/ ret.returned) =>
          /\ res.outsSet
          /\ res.chunkI = Len(res.chunks) + 1
          /\ \A i \in 1..Len(res.tasks) : res.tasks[i].st = "done"
          /\ \A k \in 1..Len(res.chunks) :
                \E i \in 1..Len(res.tasks) : res.tasks[i].chunk = k
          /\ res.outs = {n \in 0..(MaxInstances - 1) :
                            res.chunks # <<>> /\ n < res.chunks[Len(res.chunks)]}

\* the hint returned after two chunks, the first solved by two tasks
C24_Witness ==
    /\ ret.returned
    /\ Len(res.chunks) = 2
    /\ \E i, j \in 1..Len(res.tasks) :
          i # j /\ res.tasks[i].chunk = 1 /\ res.tasks[j].chunk = 1
    /\ \E i \in 1..Len(res.tasks) : res.tasks[i].chunk = 2

====
